---- MODULE Spec2Model ----
(***************************************************************************)
(* The trading engine of the Polymarket-Kalshi arbitrage bot: the scan     *)
(* loop (index.ts), ExecutionEngine.execute, RiskManager, CircuitBreaker,  *)
(* StateManager and the state file it writes.                              *)
(*                                                                         *)
(* Units.  Prices are integer cents (0.42 -> 42), quantities are whole     *)
(* contracts and exposure amounts are integer cents (100 USD -> 100 * 100).*)
(* Fees and profits (netProfit, actualProfit, dailyPnL, the profit and     *)
(* loss limits) are in hundredths of a cent, Pip to the cent, so that the  *)
(* fee rates of 2% and 7% of a price in cents stay whole numbers.          *)
(* The clock `now` counts ticks of 12 hours: two ticks make one UTC day.   *)
(* The JavaScript values null and undefined are "" for strings, NoTime for *)
(* dates and 0 for an absent fillPrice / fees (the code reads those with   *)
(* `x || fallback`, which treats 0 and undefined alike).                   *)
(*                                                                         *)
(* Atomicity.  Node runs a handler without interleaving up to its next     *)
(* await; every action below is one such run, from a resumption point to   *)
(* the next suspension point, so anything may interleave exactly where the *)
(* code awaits.                                                            *)
(***************************************************************************)
EXTENDS Integers, Sequences, FiniteSets, Bags, TLC

VARIABLES
  procUp,        \* the node process is running (main() has initialised it)
  config,        \* getConfig(): operatingMode.mode and the breaker thresholds
  now,           \* wall clock
  cb,            \* CircuitBreaker fields
  state,         \* StateManager.state (PersistedState)
  positions,     \* RiskManager.positions, in insertion order
  totalExposure, \* RiskManager.totalExposure
  botRunning,    \* index.ts botRunning / scanInterval armed
  ex,            \* one record per scan-tick callback: where it is in execute()
  ticks,         \* scan ticks fired so far (also numbers opportunity ids)
  db,            \* rows of the executions table (a bag: each row with its count)
  disk,          \* content of the state file
  writes,        \* writeFile calls in flight on the state file
  commands,      \* CLI commands issued so far
  events,        \* environment events so far: timer, clock, crash
  sockets,       \* per venue connector: wsConnected, reconnectAttempts, reconnect under way
  shutdown,      \* index.ts shutdown(): how far the signal handler has come
  matcher,       \* EventMatcher: cachedMappings, and the call under examination
  call           \* a call of detectArbitrage, validateTrade, calculateOptimalQuantity,
                 \* getLastOpportunity or withRetry under examination: input and result

vars == <<procUp, config, now, cb, state, positions, totalExposure, botRunning,
          ex, ticks, db, disk, writes, commands, events, sockets, shutdown,
          matcher, call>>

----------------------------------------------------------------------------
(* Bounds of the model *)

MaxTicks == 2
MaxCommands == 1
MaxEvents == 2
\* positions the ledger may hold in the ledger's own specification
MaxPositions == 3

MaxFailures == 4

\* The scan-tick callbacks that may be outstanding at once: setInterval fires
\* the async callback again while an earlier invocation is still awaiting.
Slots == {1, 2}

NoTime == 0 - 1

Platforms == {"polymarket", "kalshi"}

FailureTypes ==
  { "EXECUTION_FAILURE", "ASYMMETRIC_EXECUTION", "CONNECTION_LOST",
    "RATE_LIMIT_EXCEEDED", "DAILY_LOSS_LIMIT" }

----------------------------------------------------------------------------
(* Configuration *)

\* hundredths of a cent in one cent
Pip == 100

maxTotalExposure == 100 * 100
maxExposurePerEvent == 100 * 100
maxPositionImbalance == 10 * 100
dailyLossLimit == 20 * 100 * Pip
maxQuantityPerTrade == 50
minQuantityPerTrade == 1
minTradeValueUsd == 5 * 100
minProfitUsd == 10 * Pip
trackHypotheticalPnL == TRUE
requireManualReview == TRUE

\* minProfitThreshold 0.03 as a percentage
minProfitThresholdPct == 3

\* maxStateAgeMinutes
maxStateAgeMinutes == 60

\* matching.minConfidenceThreshold 0.95 as a percentage
minConfidenceThreshold == 95

\* matching.fuzzyMatchMinSimilarity 0.95 as a percentage
fuzzyMatchMinSimilarity == 95
requireDateValidation == TRUE
requireCategoryMatch == TRUE

\* trading.minProfitThreshold 0.03 as a percentage
tradingMinProfitThresholdPct == 3

\* trading.maxSlippage 0.01 as a percentage
maxSlippagePct == 1

minLiquidityDepth == 50

\* The breaker thresholds and the operating mode a deployment may configure.
Configs ==
  [ envMode : {"dry_run", "live"},
    mode : {"dry_run", "live"},
    maxConsecutiveFailures : {3},
    maxAsymmetricExecutions : {1, 2} ]

Min(a, b) == IF a < b THEN a ELSE b
Max(a, b) == IF a > b THEN a ELSE b
Abs(a) == IF a < 0 THEN 0 - a ELSE a

----------------------------------------------------------------------------
(* Opportunities the scan can return *)

Mapping1 == "m1"
Mapping2 == "m2"

\* An order book as detectArbitrage reads it: the best bid and ask of each
\* venue with their sizes; an empty side reads as bid 0 / ask 100, size 0.
Book(pb, pbs, pa, pas, kb, kbs, ka, kas) ==
  [ polyBid |-> pb, polyBidSize |-> pbs, polyAsk |-> pa, polyAskSize |-> pas,
    kalshiBid |-> kb, kalshiBidSize |-> kbs, kalshiAsk |-> ka, kalshiAskSize |-> kas ]

\* Polymarket asks 0.90 for 50, Kalshi bids 0.97 for 60
BooksPolyCheap == Book(88, 40, 90, 50, 97, 60, 99, 40)
\* the same with Kalshi's bid down to 0.95
BooksPolyCheapWorse == Book(88, 40, 90, 50, 95, 60, 99, 40)
\* Kalshi asks 0.42 for 60, Polymarket bids 0.50 for 60
BooksKalshiCheap == Book(50, 60, 52, 40, 40, 40, 42, 60)
\* no spread in either direction
BooksFlat == Book(48, 50, 50, 50, 49, 50, 51, 50)

Books == { BooksPolyCheap, BooksPolyCheapWorse, BooksKalshiCheap, BooksFlat }

NoOpp ==
  [ id |-> 0, mapping |-> "", buyPlatform |-> "", sellPlatform |-> "",
    buyPrice |-> 0, sellPrice |-> 0, netProfit |-> 0,
    buyQuantity |-> 0, sellQuantity |-> 0, maxQuantity |-> 0 ]

MkOpp(t, id) ==
  [ id |-> id, mapping |-> t.mapping, buyPlatform |-> t.buyPlatform,
    sellPlatform |-> t.sellPlatform, buyPrice |-> t.buyPrice,
    sellPrice |-> t.sellPrice, netProfit |-> t.netProfit,
    buyQuantity |-> t.buyQuantity, sellQuantity |-> t.sellQuantity,
    maxQuantity |-> t.maxQuantity ]

\* estimateFees(buyPlatform, sellPlatform, buyPrice, sellPrice, 1), in Pip
estimateFees(buyPlatform, sellPlatform, buyPrice, sellPrice) ==
  (IF buyPlatform = "polymarket" THEN buyPrice * 2 ELSE 0)
  + (IF sellPlatform = "polymarket" THEN (100 - sellPrice) * 2 ELSE 0)
  + (IF sellPlatform = "kalshi" THEN Min((100 - sellPrice) * 7, 7 * Pip) ELSE 0)

\* createOpportunity(...)
createOpportunity(mapping, buyPlatform, buyPrice, buyQuantity, sellPlatform, sellPrice, sellQuantity, grossSpread, fees, maxQuantity) ==
  [ id |-> 0, mapping |-> mapping, buyPlatform |-> buyPlatform,
    sellPlatform |-> sellPlatform, buyPrice |-> buyPrice, sellPrice |-> sellPrice,
    netProfit |-> grossSpread - fees,
    buyQuantity |-> buyQuantity, sellQuantity |-> sellQuantity,
    maxQuantity |-> maxQuantity ]

detectArbitrageAnySpread(b, mapping) ==
  IF b.polyAsk < b.kalshiBid /\ Min(b.polyAskSize, b.kalshiBidSize) >= minLiquidityDepth
  THEN createOpportunity(mapping, "polymarket", b.polyAsk, b.polyAskSize,
                         "kalshi", b.kalshiBid, b.kalshiBidSize,
                         (b.kalshiBid - b.polyAsk) * Pip,
                         estimateFees("polymarket", "kalshi", b.polyAsk, b.kalshiBid),
                         Min(b.polyAskSize, b.kalshiBidSize))
  ELSE NoOpp

\* detectArbitrage(polymarketBook, kalshiBook, mapping): the more profitable of
\* the two directions that clear the spread test, if it also clears the profit
\* and liquidity thresholds; NoOpp for null.
detectArbitrage(b, mapping) ==
  LET fees1 == estimateFees("polymarket", "kalshi", b.polyAsk, b.kalshiBid)
      spread1 == (b.kalshiBid - b.polyAsk) * Pip
      case1 == /\ b.polyAsk < b.kalshiBid
               /\ spread1 * 100 > fees1 * 100 + tradingMinProfitThresholdPct * b.polyAsk * Pip
      opp1 == createOpportunity(mapping, "polymarket", b.polyAsk, b.polyAskSize,
                                "kalshi", b.kalshiBid, b.kalshiBidSize, spread1, fees1,
                                Min(b.polyAskSize, b.kalshiBidSize))
      fees2 == estimateFees("kalshi", "polymarket", b.kalshiAsk, b.polyBid)
      spread2 == (b.polyBid - b.kalshiAsk) * Pip
      case2 == /\ b.kalshiAsk < b.polyBid
               /\ spread2 * 100 > fees2 * 100 + tradingMinProfitThresholdPct * b.kalshiAsk * Pip
      opp2 == createOpportunity(mapping, "kalshi", b.kalshiAsk, b.kalshiAskSize,
                                "polymarket", b.polyBid, b.polyBidSize, spread2, fees2,
                                Min(b.kalshiAskSize, b.polyBidSize))
      opportunity == IF case2 /\ (~case1 \/ opp2.netProfit > opp1.netProfit) THEN opp2
                     ELSE IF case1 THEN opp1 ELSE NoOpp
  IN IF opportunity = NoOpp THEN NoOpp
     ELSE IF opportunity.netProfit * 100
               < tradingMinProfitThresholdPct * opportunity.buyPrice * Pip THEN NoOpp
     ELSE IF opportunity.maxQuantity < minLiquidityDepth THEN NoOpp
     ELSE opportunity

\* What a scan finds: the books of each mapping when it is scanned.
ScanBooks ==
  { [ mapping |-> Mapping1, books |-> BooksPolyCheap ],
    [ mapping |-> Mapping2, books |-> BooksKalshiCheap ] }

\* scanForOpportunities: detectArbitrage on each mapping's books
OppTemplates == { detectArbitrage(sb.books, sb.mapping) : sb \in ScanBooks }

\* What the two getOrderBook calls of validateOpportunity give: fresh books,
\* or an exception.
NoBooks == Book(0, 0, 100, 0, 0, 0, 100, 0)
FetchResults ==
  { [ ok |-> TRUE, books |-> b ] : b \in Books } \cup { [ ok |-> FALSE, books |-> NoBooks ] }

\* validateOpportunity(opportunity) after its expiry test: fresh books, a
\* fresh detectArbitrage, the profit-ratio test; false when a fetch threw.
validateOpportunity(opp, fetched) ==
  IF ~fetched.ok THEN FALSE
  ELSE LET freshOpportunity == detectArbitrage(fetched.books, opp.mapping)
       IN IF freshOpportunity = NoOpp THEN FALSE
          ELSE IF freshOpportunity.netProfit * 100
                    < (100 - maxSlippagePct) * opp.netProfit THEN FALSE
          ELSE TRUE

----------------------------------------------------------------------------
(* StateManager (core/state.ts) *)

\* getTodayString(): the UTC date of the clock
getTodayString(t) == t \div 2

createInitialState(t) ==
  [ dailyPnL |-> 0, dailyTradeCount |-> 0, dailyVolumeUsd |-> 0,
    tradingDate |-> getTodayString(t),
    circuitBreakerPaused |-> FALSE, circuitBreakerReason |-> "",
    circuitBreakerPausedAt |-> NoTime,
    openPositions |-> <<>>,
    lastHeartbeat |-> t, lastSuccessfulTrade |-> NoTime ]

recordSuccessfulTrade(s, profit, volume, t) ==
  [ s EXCEPT !.dailyPnL = @ + profit,
             !.dailyTradeCount = @ + 1,
             !.dailyVolumeUsd = @ + volume,
             !.lastSuccessfulTrade = t ]

setCircuitBreakerState(s, paused, reason, t) ==
  [ s EXCEPT !.circuitBreakerPaused = paused,
             !.circuitBreakerReason = reason,
             !.circuitBreakerPausedAt = IF paused THEN t ELSE NoTime ]

\* The state file: absent, a complete JSON document, or a file that writeFile
\* has truncated and not yet written in full.  data / prev hold zero or one
\* PersistedState: the document (being) written, and the last complete
\* document the file held before.
AbsentFile == [ kind |-> "absent", data |-> <<>>, prev |-> <<>> ]
CompleteFile(s) == [ kind |-> "complete", data |-> <<s>>, prev |-> <<>> ]
LastComplete(f) == IF f.kind = "complete" THEN f.data ELSE f.prev
PartialFile(s, f) == [ kind |-> "partial", data |-> <<s>>, prev |-> LastComplete(f) ]

\* JSON values: number, string, boolean, array, null
JsonValue(type, v) == [ type |-> type, v |-> v ]
JsonNull == JsonValue("null", 0)

\* a value that is null in the program (here: the given stand-in) or a string
JsonNullable(x, null) == IF x = null THEN JsonNull ELSE JsonValue("string", x)
FromNullable(j, null) == IF j.type = "null" THEN null ELSE j.v

\* JSON.stringify(this.state, null, 2): the document save() writes.  Dates are
\* held as ISO strings in PersistedState; null is "" / NoTime in this model.
stringify(s) ==
  [ dailyPnL |-> JsonValue("number", s.dailyPnL),
    dailyTradeCount |-> JsonValue("number", s.dailyTradeCount),
    dailyVolumeUsd |-> JsonValue("number", s.dailyVolumeUsd),
    tradingDate |-> JsonValue("string", s.tradingDate),
    circuitBreakerPaused |-> JsonValue("boolean", s.circuitBreakerPaused),
    circuitBreakerReason |-> JsonNullable(s.circuitBreakerReason, ""),
    circuitBreakerPausedAt |-> JsonNullable(s.circuitBreakerPausedAt, NoTime),
    openPositions |-> JsonValue("array", s.openPositions),
    lastHeartbeat |-> JsonValue("string", s.lastHeartbeat),
    lastSuccessfulTrade |-> JsonNullable(s.lastSuccessfulTrade, NoTime) ]

\* JSON.parse(data) of a complete document, assigned to this.state
parse(doc) ==
  [ dailyPnL |-> doc.dailyPnL.v,
    dailyTradeCount |-> doc.dailyTradeCount.v,
    dailyVolumeUsd |-> doc.dailyVolumeUsd.v,
    tradingDate |-> doc.tradingDate.v,
    circuitBreakerPaused |-> doc.circuitBreakerPaused.v,
    circuitBreakerReason |-> FromNullable(doc.circuitBreakerReason, ""),
    circuitBreakerPausedAt |-> FromNullable(doc.circuitBreakerPausedAt, NoTime),
    openPositions |-> doc.openPositions.v,
    lastHeartbeat |-> doc.lastHeartbeat.v,
    lastSuccessfulTrade |-> FromNullable(doc.lastSuccessfulTrade, NoTime) ]

\* load without the new-trading-day reset
loadKeepsCounters(f, cur, t) ==
  IF f.kind # "complete" THEN cur ELSE f.data[1]

\* load(): no file -> the constructor's state; JSON.parse of a partial document
\* throws and the catch returns this.state, which in a process that has just
\* started is the constructor's state; a new trading day resets the counters.
load(f, cur, t) ==
  IF f.kind # "complete" THEN cur
  ELSE LET s == parse(stringify(f.data[1])) IN
       IF s.tradingDate # getTodayString(t)
       THEN [ s EXCEPT !.dailyPnL = 0, !.dailyTradeCount = 0,
                       !.dailyVolumeUsd = 0, !.tradingDate = getTodayString(t) ]
       ELSE s

\* getStateAgeMinutes(), one tick being 720 minutes
getStateAgeMinutes(s, t) == (t - s.lastHeartbeat) * 720

\* save(): stamps the heartbeat on the in-memory state, serialises it and hands
\* it to writeFile.  Returns <<state after the call, writes after the call>>.
\* (The data directory exists; save() then reaches writeFile without awaiting.)
saveCall(s, ws, t) ==
  LET s2 == [ s EXCEPT !.lastHeartbeat = t ] IN
  << s2, ws \cup { [ data |-> s2, started |-> FALSE ] } >>

----------------------------------------------------------------------------
(* CircuitBreaker (core/circuit-breaker.ts) *)

NewCircuitBreaker ==
  [ paused |-> FALSE, pauseReason |-> "", pausedAt |-> NoTime,
    consecutiveFailures |-> 0, asymmetricExecutions |-> 0 ]

\* The breaker together with what pause()/resume() do to the StateManager:
\* a "world" is the triple the breaker's methods read and write.
World(c, s, ws) == [ cb |-> c, state |-> s, writes |-> ws ]

\* pause without its already-paused return
pauseOverwrite(w, reason, t) ==
  LET c2 == [ w.cb EXCEPT !.paused = TRUE, !.pauseReason = reason, !.pausedAt = t ]
      s2 == setCircuitBreakerState(w.state, TRUE, reason, t)
      sv == saveCall(s2, w.writes, t)
  IN World(c2, sv[1], sv[2])

\* pause(reason)
pause(w, reason, t) ==
  IF w.cb.paused THEN w
  ELSE LET c2 == [ w.cb EXCEPT !.paused = TRUE, !.pauseReason = reason, !.pausedAt = t ]
           s2 == setCircuitBreakerState(w.state, TRUE, reason, t)
           sv == saveCall(s2, w.writes, t)
       IN World(c2, sv[1], sv[2])

\* resume()
resume(w, t) ==
  IF ~w.cb.paused THEN w
  ELSE LET c2 == NewCircuitBreaker
           s2 == setCircuitBreakerState(w.state, FALSE, "", t)
           sv == saveCall(s2, w.writes, t)
       IN World(c2, sv[1], sv[2])

\* recordFailure comparing the counters with > instead of >=
recordFailureAboveThreshold(w, type, cfg, t) ==
  LET c1 == [ w.cb EXCEPT
                !.consecutiveFailures = @ + 1,
                !.asymmetricExecutions =
                   IF type = "ASYMMETRIC_EXECUTION" THEN @ + 1 ELSE @ ]
      w1 == [ w EXCEPT !.cb = c1 ]
      w2 == IF c1.consecutiveFailures > cfg.maxConsecutiveFailures
            THEN pause(w1, "consecutive failures", t) ELSE w1
      w3 == IF c1.asymmetricExecutions > cfg.maxAsymmetricExecutions
            THEN pause(w2, "asymmetric executions - manual review required", t) ELSE w2
      w4 == IF type = "DAILY_LOSS_LIMIT"
            THEN pause(w3, "Daily loss limit reached", t) ELSE w3
      w5 == IF type = "CONNECTION_LOST"
            THEN pause(w4, "Connection lost to exchange", t) ELSE w4
  IN w5

\* recordFailure with the two immediate-pause rules lost
recordFailureThresholdsOnly(w, type, cfg, t) ==
  LET c1 == [ w.cb EXCEPT
                !.consecutiveFailures = @ + 1,
                !.asymmetricExecutions =
                   IF type = "ASYMMETRIC_EXECUTION" THEN @ + 1 ELSE @ ]
      w1 == [ w EXCEPT !.cb = c1 ]
      w2 == IF c1.consecutiveFailures >= cfg.maxConsecutiveFailures
            THEN pause(w1, "consecutive failures", t) ELSE w1
      w3 == IF c1.asymmetricExecutions >= cfg.maxAsymmetricExecutions
            THEN pause(w2, "asymmetric executions - manual review required", t) ELSE w2
  IN w3

\* recordFailure(type)
recordFailure(w, type, cfg, t) ==
  LET c1 == [ w.cb EXCEPT
                !.consecutiveFailures = @ + 1,
                !.asymmetricExecutions =
                   IF type = "ASYMMETRIC_EXECUTION" THEN @ + 1 ELSE @ ]
      w1 == [ w EXCEPT !.cb = c1 ]
      w2 == IF c1.consecutiveFailures >= cfg.maxConsecutiveFailures
            THEN pause(w1, "consecutive failures", t) ELSE w1
      w3 == IF c1.asymmetricExecutions >= cfg.maxAsymmetricExecutions
            THEN pause(w2, "asymmetric executions - manual review required", t) ELSE w2
      w4 == IF type = "DAILY_LOSS_LIMIT"
            THEN pause(w3, "Daily loss limit reached", t) ELSE w3
      w5 == IF type = "CONNECTION_LOST"
            THEN pause(w4, "Connection lost to exchange", t) ELSE w4
  IN w5

\* recordSuccess that starts the breaker afresh
recordSuccessResets(c) == NewCircuitBreaker

\* recordSuccess()
recordSuccess(c) == [ c EXCEPT !.consecutiveFailures = 0 ]

\* initialize() leaving the breaker as constructed
initializeUnpaused(s) ==
  [ NewCircuitBreaker EXCEPT !.pausedAt = s.circuitBreakerPausedAt ]

\* initialize(): from the loaded state
initialize(s) ==
  [ NewCircuitBreaker EXCEPT !.paused = s.circuitBreakerPaused,
                             !.pauseReason = s.circuitBreakerReason,
                             !.pausedAt = s.circuitBreakerPausedAt ]

----------------------------------------------------------------------------
(* RiskManager (core/risk-manager.ts) *)

RECURSIVE SumExposure(_)
SumExposure(ps) ==
  IF ps = <<>> THEN 0
  ELSE ps[1].quantity * ps[1].avgPrice + SumExposure(Tail(ps))

EventPositions(ps, eventId) == SelectSeq(ps, LAMBDA p : p.eventId = eventId)

\* getEventExposure(eventId)
getEventExposure(ps, eventId) == SumExposure(EventPositions(ps, eventId))

\* recalculateTotalExposure adding up the quantities without their prices
RECURSIVE recalculateTotalExposureQuantities(_)
recalculateTotalExposureQuantities(ps) ==
  IF ps = <<>> THEN 0
  ELSE ps[1].quantity + recalculateTotalExposureQuantities(Tail(ps))

\* recalculateTotalExposure()
recalculateTotalExposure(ps) == SumExposure(ps)

RECURSIVE SumQty(_, _)
SumQty(ps, side) ==
  IF ps = <<>> THEN 0
  ELSE (IF ps[1].side = side THEN ps[1].quantity ELSE 0) + SumQty(Tail(ps), side)

RECURSIVE SumAvgPrice(_)
SumAvgPrice(ps) == IF ps = <<>> THEN 0 ELSE ps[1].avgPrice + SumAvgPrice(Tail(ps))

\* getNetInventory(eventId).imbalanceUsd > maxPositionImbalance, where
\* imbalanceUsd = |yes - no| * (mean avgPrice of the event's positions):
\* compared after multiplying both sides by the number of positions.
ImbalanceExceeded(ps, eventId) ==
  LET es == EventPositions(ps, eventId)
      net == SumQty(es, "yes") - SumQty(es, "no")
  IN Len(es) > 0 /\ Abs(net) * SumAvgPrice(es) > maxPositionImbalance * Len(es)

\* calculateOptimalQuantity(opportunity)
calculateOptimalQuantity(opp, total) ==
  LET q0 == Min(Min(opp.buyQuantity, opp.sellQuantity), opp.maxQuantity)
      q1 == Min(q0, maxQuantityPerTrade)
      remainingExposure == maxTotalExposure - total
      q2 == IF remainingExposure > 0
            THEN Min(q1, remainingExposure \div opp.buyPrice) ELSE q1
  IN Max(q2, minQuantityPerTrade)

\* validateTrade(opportunity, quantity): the blocking checks, in the code's order
validateTradeChecks(opp, quantity, ps, total, c, s) ==
  LET tradeValue == quantity * opp.buyPrice
      eventExposure == getEventExposure(ps, opp.mapping)
  IN << c.paused,
        total + tradeValue > maxTotalExposure,
        eventExposure + tradeValue > maxExposurePerEvent,
        ImbalanceExceeded(ps, opp.mapping),
        s.dailyPnL < 0 - dailyLossLimit,
        opp.netProfit * 100 < minProfitThresholdPct * opp.buyPrice * Pip,
        quantity > maxQuantityPerTrade,
        quantity < minQuantityPerTrade,
        tradeValue < minTradeValueUsd,
        quantity * opp.netProfit < minProfitUsd >>

\* validateTrade(...).suggestedQuantity, 0 standing for undefined
suggestedQuantity(opp, quantity, ps, total) ==
  LET tradeValue == quantity * opp.buyPrice
      eventExposure == getEventExposure(ps, opp.mapping)
      remainingExposure == maxTotalExposure - total
      s1 == IF remainingExposure > 0 /\ tradeValue > remainingExposure
            THEN remainingExposure \div opp.buyPrice ELSE quantity
      remainingEventExposure == maxExposurePerEvent - eventExposure
      s2 == IF remainingEventExposure > 0 /\ tradeValue > remainingEventExposure
            THEN Min(s1, remainingEventExposure \div opp.buyPrice) ELSE s1
      s3 == Min(s2, maxQuantityPerTrade)
  IN IF s3 > 0 THEN s3 ELSE 0

\* validateTrade(...).approved: checks.length === 0
approved(opp, quantity, ps, total, c, s) ==
  LET ch == validateTradeChecks(opp, quantity, ps, total, c, s)
  IN \A i \in DOMAIN ch : ~ch[i]

\* validateTrade where a paused breaker is not a blocking check
validateTradeIgnoringBreaker(opp, quantity, ps, total, c, s) ==
  LET ch == validateTradeChecks(opp, quantity, ps, total, [ c EXCEPT !.paused = FALSE ], s)
      reasons == SelectSeq([ i \in DOMAIN ch |-> i ], LAMBDA i : ch[i])
  IN [ approved |-> Len(reasons) = 0, reasons |-> reasons,
       suggestedQuantity |-> suggestedQuantity(opp, quantity, ps, total) ]

\* validateTrade(opportunity, quantity): the RiskCheck returned; a reason is
\* the number of the check that pushed it, <<>> stands for undefined.
validateTrade(opp, quantity, ps, total, c, s) ==
  LET ch == validateTradeChecks(opp, quantity, ps, total, c, s)
      reasons == SelectSeq([ i \in DOMAIN ch |-> i ], LAMBDA i : ch[i])
  IN [ approved |-> Len(reasons) = 0, reasons |-> reasons,
       suggestedQuantity |-> suggestedQuantity(opp, quantity, ps, total) ]

\* updatePositions(positions): the ledger is cleared and refilled
updatePositions(ps, new) == new

\* addPosition(position)
addPosition(ps, p) == Append(ps, p)

----------------------------------------------------------------------------
(* Venue connectors (connectors/polymarket, connectors/kalshi) *)

\* What a venue does with a fill-or-kill order: fills it, rejects it, or the
\* request fails in transport (throws, times out) with no definite answer.
VenueOutcomes == {"Filled", "Rejected", "TransportError"}

\* A fill for which the venue reports fees (fill.fee, taker_fees) above the
\* spread of the trade: 5 USD for the order.
CostlyFee == 5 * 100 * Pip

\* placeLimitOrder(order) for a FOK order, given what the venue did: a filled
\* order is reported with its fill; an unfilled order and an exception caught
\* by the connector's try/catch are both reported as { success: false }.
\* (PolymarketConnector also answers { success: false } without sending when
\* it has no wallet: for the engine that is one more definite non-fill.)
placeLimitOrder(price, venue) ==
  IF venue = "Filled"
  THEN [ success |-> TRUE, fillPrice |-> price, fees |-> 0, error |-> "" ]
  ELSE IF venue = "FilledAtCost"
  THEN [ success |-> TRUE, fillPrice |-> price, fees |-> CostlyFee, error |-> "" ]
  ELSE IF venue = "Rejected"
  THEN [ success |-> FALSE, fillPrice |-> 0, fees |-> 0, error |-> "FOK order not filled" ]
  ELSE [ success |-> FALSE, fillPrice |-> 0, fees |-> 0, error |-> "request failed" ]

----------------------------------------------------------------------------
(* ExecutionEngine (core/execution-engine.ts) *)

\* x || y on numbers
OrElse(x, y) == IF x # 0 THEN x ELSE y

\* calculateActualProfit(buyExecution, sellExecution, quantity)
calculateActualProfit(b, s, quantity) ==
  (s.fillPrice - b.fillPrice) * quantity * Pip - (b.fees + s.fees)

\* recordPositions with the second addPosition call lost
recordPositionsBuyOnly(ps, opp, quantity, b, s) ==
  addPosition(ps, [ platform |-> opp.buyPlatform, eventId |-> opp.mapping, side |-> "yes",
                    quantity |-> quantity, avgPrice |-> OrElse(b.fillPrice, opp.buyPrice) ])

\* recordPositions(opportunity, quantity, buyExecution, sellExecution)
recordPositions(ps, opp, quantity, b, s) ==
  LET buyPosition ==
        [ platform |-> opp.buyPlatform, eventId |-> opp.mapping, side |-> "yes",
          quantity |-> quantity, avgPrice |-> OrElse(b.fillPrice, opp.buyPrice) ]
      sellPosition ==
        [ platform |-> opp.sellPlatform, eventId |-> opp.mapping, side |-> "no",
          quantity |-> quantity, avgPrice |-> OrElse(s.fillPrice, opp.sellPrice) ]
  IN addPosition(addPosition(ps, buyPosition), sellPosition)

\* saveExecution(...): the row inserted into executions
ExecutionRow(opp, status, isDryRun) ==
  [ opportunityId |-> opp.id, status |-> status, isDryRun |-> isDryRun ]

\* buySent / sellSent: how many times this execute() call has handed the leg's
\* order to its venue connector.  expired: opp.expirationTime < new Date().
IdleSlot ==
  [ pc |-> "idle", opp |-> NoOpp, qty |-> 0, outcome |-> "", status |-> "",
    buySent |-> 0, sellSent |-> 0, expired |-> FALSE ]

\* placeOrder with the connector call wrapped in a retry: a second submission
placeOrderResubmit(sent) == sent + 2

\* placeOrder(order): one placeLimitOrder call on the order's connector, which
\* posts the order once (no withRetry around the POST).
placeOrder(sent) == sent + 1

\* the mode test reading the mode the process was started with
isDryRunAtStartup(cfg) == cfg.envMode = "dry_run"

\* execute() step 5: config.operatingMode.mode === 'dry_run'
isDryRun(cfg) == cfg.mode = "dry_run"

\* execute() returns its ExecutionResult; the scan callback logs it and ends
\* without awaiting again, so the return and the end of the callback are one
\* step and the slot is free.
Returned(outcome) == IdleSlot

\* A slot is inside execute(): between the call and the return.
InExecute(slot) == slot.pc \in {"revalidating", "firing", "alerting", "saving"}

\* No call of a detector, risk-manager or retry operation is under examination.
NoCall == [ op |-> "none" ]

\* new EventMatcher(): empty cache; no call under examination.
IdleMatcher ==
  [ cachedMappings |-> {}, input |-> [ op |-> "none" ], returned |-> FALSE, result |-> {} ]

\* No signal received: shutdown() has not been called.
NotShuttingDown == [ pc |-> "running", snapshot |-> <<>> ]

\* Connector fields: wsConnected = false, reconnectAttempts = 0; no socket yet.
NewSocket == [ connected |-> FALSE, reconnectAttempts |-> 0, attempting |-> FALSE ]

\* connectWebSocket() 'open' handler
OpenSocket == [ connected |-> TRUE, reconnectAttempts |-> 0, attempting |-> FALSE ]

maxReconnectAttempts == 5

----------------------------------------------------------------------------
(* Initial state: the process has not started; the state file does not exist. *)

Init ==
  /\ procUp = FALSE
  /\ config \in { c \in Configs : c.mode = c.envMode }
  /\ now = 0
  /\ cb = NewCircuitBreaker
  /\ state = createInitialState(0)
  /\ positions = <<>>
  /\ totalExposure = 0
  /\ botRunning = FALSE
  /\ ex = [ e \in Slots |-> IdleSlot ]
  /\ ticks = 0
  /\ db = EmptyBag
  /\ disk = AbsentFile
  /\ writes = {}
  /\ commands = 0
  /\ events = 0
  /\ sockets = [ v \in Platforms |-> NewSocket ]
  /\ shutdown = NotShuttingDown
  /\ matcher = IdleMatcher
  /\ call = NoCall

----------------------------------------------------------------------------
(* index.ts: main(), the scan loop and the CLI *)

\* performStartupChecks(): the warnings, and canStart
startupWarnings(s, t) ==
  << getStateAgeMinutes(s, t) > maxStateAgeMinutes,
     s.circuitBreakerPaused,
     s.dailyPnL < 0 - dailyLossLimit >>

canStart(s, t) ==
  LET w == startupWarnings(s, t)
  IN ~requireManualReview \/ (\A i \in DOMAIN w : ~w[i])

\* main(): a new process constructs its singletons, loads the state file
\* (main and performStartupChecks each call load()), initialises the breaker
\* from it, and starts the bot loop if the startup checks allow.  The mode is
\* read from the environment again.
Startup ==
  /\ ~procUp
  /\ LET loaded == load(disk, createInitialState(now), now) IN
       /\ state' = loaded
       /\ cb' = initialize(loaded)
       /\ botRunning' = canStart(loaded, now)
  /\ procUp' = TRUE
  /\ config' = [ config EXCEPT !.mode = config.envMode ]
  /\ positions' = <<>>
  /\ totalExposure' = 0
  /\ ex' = [ e \in Slots |-> IdleSlot ]
  /\ sockets' = [ v \in Platforms |-> OpenSocket ]
  /\ shutdown' = NotShuttingDown
  /\ UNCHANGED <<call, matcher, now, ticks, db, disk, writes, events, commands>>

\* The process dies (kill -9, power loss, unhandled fatal error): memory and
\* the writeFile calls in flight are lost, the file stays as it is.
Crash ==
  /\ procUp
  /\ events < MaxEvents
  /\ events' = events + 1
  /\ procUp' = FALSE
  /\ botRunning' = FALSE
  /\ writes' = {}
  /\ sockets' = [ v \in Platforms |-> NewSocket ]
  /\ shutdown' = NotShuttingDown
  /\ UNCHANGED <<call, matcher, config, now, cb, state, positions, totalExposure, ex, ticks, db, disk, commands>>

\* The setInterval callback of startBotLoop, up to its first await.  The
\* invocations are anonymous: a new one takes the lowest free slot.
ScanTick(e) ==
  /\ procUp /\ botRunning
  /\ ticks < MaxTicks
  /\ ex[e].pc = "idle"
  /\ \A f \in Slots : f < e => ex[f].pc # "idle"
  /\ ticks' = ticks + 1
  /\ ex' = IF cb.paused THEN ex
           ELSE [ ex EXCEPT ![e].pc = "scanning", ![e].opp.id = ticks + 1 ]
  /\ UNCHANGED <<call, matcher, shutdown, sockets, procUp, config, now, cb, state, positions, totalExposure,
                 botRunning, db, disk, writes, events, commands>>

\* scanForOpportunities() resolved with nothing (or threw): the callback ends.
ScanEmpty(e) ==
  /\ procUp
  /\ ex[e].pc = "scanning"
  /\ ex' = [ ex EXCEPT ![e] = IdleSlot ]
  /\ UNCHANGED <<call, matcher, shutdown, sockets, procUp, config, now, cb, state, positions, totalExposure,
                 botRunning, ticks, db, disk, writes, events, commands>>

\* execute(opportunity), lines 32-74: breaker check, quantity, risk check, then
\* the call of validateOpportunity, which tests the expiry (stale: the
\* expiration time has passed already) and awaits the order books.
ExecuteStart(slot, opp, stale) ==
  IF cb.paused THEN Returned("cb_paused")
  ELSE LET quantity == calculateOptimalQuantity(opp, totalExposure)
           ok == approved(opp, quantity, positions, totalExposure, cb, state)
           finalQuantity ==
             OrElse(suggestedQuantity(opp, quantity, positions, totalExposure), quantity)
       IN IF ~ok THEN Returned("risk_rejected")
          ELSE IF stale THEN Returned("not_valid")
          ELSE [ slot EXCEPT !.pc = "revalidating", !.opp = opp, !.qty = finalQuantity ]

\* scanForOpportunities() resolved with opportunities; the best one is executed.
ScanFound(e, t, stale) ==
  /\ procUp
  /\ ex[e].pc = "scanning"
  /\ ex' = [ ex EXCEPT ![e] = ExecuteStart(IdleSlot, MkOpp(t, ex[e].opp.id), stale) ]
  /\ UNCHANGED <<call, matcher, shutdown, sockets, procUp, config, now, cb, state, positions, totalExposure,
                 botRunning, ticks, db, disk, writes, events, commands>>

\* The order-book fetches of validateOpportunity() resolved (or threw) and it
\* answers.  Not valid: execute() returns.  Valid and dry_run: executeDryRun up
\* to its await of saveExecution.  Valid and live: both placeOrder calls are
\* made (Promise.allSettled) and execute() awaits.
RevalidateDone(e, fetched) ==
  /\ procUp
  /\ ex[e].pc = "revalidating"
  /\ LET slot == ex[e]
         stillValid == validateOpportunity(slot.opp, fetched)
     IN
     IF ~stillValid
     THEN /\ ex' = [ ex EXCEPT ![e] = Returned("not_valid") ]
          /\ state' = state
     ELSE IF isDryRun(config)
     THEN /\ ex' = [ ex EXCEPT ![e] = [ slot EXCEPT !.pc = "saving", !.outcome = "dry_run",
                                                    !.status = "complete" ] ]
          /\ state' = IF trackHypotheticalPnL
                      THEN recordSuccessfulTrade(state, slot.opp.netProfit * slot.qty,
                                                 slot.qty * slot.opp.buyPrice, now)
                      ELSE state
     ELSE /\ ex' = [ ex EXCEPT ![e] = [ slot EXCEPT !.pc = "firing",
                                                    !.buySent = placeOrder(@),
                                                    !.sellSent = placeOrder(@) ] ]
          /\ state' = state
  /\ UNCHANGED <<call, matcher, shutdown, sockets, procUp, config, now, cb, positions, totalExposure, botRunning,
                 ticks, db, disk, writes, events, commands>>

\* Promise.allSettled resolved: the venues have done bv / sv with the buy and
\* the sell order.  Lines 132-237: classification and, synchronously with it,
\* the bookkeeping of the branch taken, up to the branch's first await (or its
\* return).  placeLimitOrder never rejects its promise (it catches), so both
\* results are 'fulfilled'.
LegsSettled(e, bv, sv) ==
  /\ procUp
  /\ ex[e].pc = "firing"
  /\ LET slot == ex[e]
         opp == slot.opp
         buyExecution == placeLimitOrder(opp.buyPrice, bv)
         sellExecution == placeLimitOrder(opp.sellPrice, sv)
         buySuccess == buyExecution.success
         sellSuccess == sellExecution.success
     IN
     IF buySuccess /\ sellSuccess
     THEN LET actualProfit == calculateActualProfit(buyExecution, sellExecution, slot.qty)
              ps == recordPositions(positions, opp, slot.qty, buyExecution, sellExecution)
          IN /\ cb' = recordSuccess(cb)
             /\ state' = recordSuccessfulTrade(state, actualProfit,
                                               slot.qty * opp.buyPrice, now)
             /\ positions' = ps
             /\ totalExposure' = recalculateTotalExposure(ps)
             /\ ex' = [ ex EXCEPT ![e] = [ slot EXCEPT !.pc = "saving",
                                           !.outcome = "both_filled", !.status = "complete" ] ]
             /\ writes' = writes
     ELSE IF ~buySuccess /\ ~sellSuccess
     THEN /\ ex' = [ ex EXCEPT ![e] = Returned("both_rejected") ]
          /\ UNCHANGED <<call, matcher, shutdown, sockets, cb, state, positions, totalExposure, writes>>
     ELSE LET w == recordFailure(World(cb, state, writes), "ASYMMETRIC_EXECUTION", config, now)
          IN /\ cb' = w.cb
             /\ state' = w.state
             /\ writes' = w.writes
             /\ ex' = [ ex EXCEPT ![e] = [ slot EXCEPT !.pc = "alerting",
                                           !.outcome = "asymmetric", !.status = "failed" ] ]
             /\ UNCHANGED <<call, matcher, shutdown, sockets, positions, totalExposure>>
  /\ UNCHANGED <<call, matcher, shutdown, sockets, procUp, config, now, botRunning, ticks, db, disk, events, commands>>

\* alertAsymmetricExecution() resolved; saveExecution is called and awaited.
AlertDone(e) ==
  /\ procUp
  /\ ex[e].pc = "alerting"
  /\ ex' = [ ex EXCEPT ![e].pc = "saving" ]
  /\ UNCHANGED <<call, matcher, shutdown, sockets, procUp, config, now, cb, state, positions, totalExposure,
                 botRunning, ticks, db, disk, writes, events, commands>>

\* saveExecution() resolved: the row was inserted, or the insert threw and the
\* error was logged and swallowed.  execute() then returns.
SaveExecutionDone(e, inserted) ==
  /\ procUp
  /\ ex[e].pc = "saving"
  /\ db' = IF inserted
           THEN db (+) SetToBag({ ExecutionRow(ex[e].opp, ex[e].status, ex[e].outcome = "dry_run") })
           ELSE db
  /\ ex' = [ ex EXCEPT ![e] = Returned(ex[e].outcome) ]
  /\ UNCHANGED <<call, matcher, shutdown, sockets, procUp, config, now, cb, state, positions, totalExposure,
                 botRunning, ticks, disk, writes, events, commands>>

\* CLI: pause
CliPause ==
  /\ procUp
  /\ commands < MaxCommands
  /\ commands' = commands + 1
  /\ LET w == pause(World(cb, state, writes), "Manual pause via CLI", now)
     IN cb' = w.cb /\ state' = w.state /\ writes' = w.writes
  /\ UNCHANGED <<call, matcher, shutdown, sockets, procUp, config, now, positions, totalExposure, botRunning,
                 ex, ticks, db, disk, events>>

\* CLI: resume
CliResume ==
  /\ procUp
  /\ commands < MaxCommands
  /\ commands' = commands + 1
  /\ LET w == IF cb.paused THEN resume(World(cb, state, writes), now)
              ELSE World(cb, state, writes)
     IN cb' = w.cb /\ state' = w.state /\ writes' = w.writes
  /\ UNCHANGED <<call, matcher, shutdown, sockets, procUp, config, now, positions, totalExposure, botRunning,
                 ex, ticks, db, disk, events>>

\* CLI: dry-run / live --confirm
CliSetMode(m) ==
  /\ procUp
  /\ commands < MaxCommands
  /\ config.mode # m
  /\ commands' = commands + 1
  /\ config' = [ config EXCEPT !.mode = m ]
  /\ UNCHANGED <<call, matcher, shutdown, sockets, procUp, now, cb, state, positions, totalExposure, botRunning,
                 ex, ticks, db, disk, writes, events>>

\* The auto-save timer fires: save()
AutoSave ==
  /\ procUp
  /\ shutdown.pc = "running"
  /\ events < MaxEvents
  /\ events' = events + 1
  /\ LET sv == saveCall(state, writes, now)
     IN state' = sv[1] /\ writes' = sv[2]
  /\ UNCHANGED <<call, matcher, shutdown, sockets, procUp, config, now, cb, positions, totalExposure, botRunning,
                 ex, ticks, db, disk, commands>>

\* writeFile opens the state file with flag 'w': the file is truncated.
WriteOpen(w) ==
  /\ w \in writes /\ ~w.started
  /\ disk' = PartialFile(w.data, disk)
  /\ writes' = (writes \ {w}) \cup { [ w EXCEPT !.started = TRUE ] }
  /\ UNCHANGED <<call, matcher, shutdown, sockets, procUp, config, now, cb, state, positions, totalExposure,
                 botRunning, ex, ticks, db, events, commands>>

\* writeFile has written its document, closed the file and resolves.  When
\* another writeFile call has the file open at the same time the two calls'
\* truncations and writes interleave, and the file may hold this call's
\* document in full or not (truncated by the other call after the write).
WriteDone(w, intact) ==
  /\ w \in writes /\ w.started
  /\ ~intact => \E w2 \in writes \ {w} : w2.started
  /\ disk' = IF intact THEN CompleteFile(w.data) ELSE PartialFile(w.data, disk)
  /\ writes' = writes \ {w}
  /\ UNCHANGED <<call, matcher, shutdown, sockets, procUp, config, now, cb, state, positions, totalExposure,
                 botRunning, ex, ticks, db, events, commands>>

\* writeFile rejects (disk full, read-only file system, permission): save()
\* catches the error and logs it.  The file keeps what it held, truncated if
\* this call had opened it.
WriteFailed(w) ==
  /\ w \in writes
  /\ writes' = writes \ {w}
  /\ UNCHANGED <<call, matcher, shutdown, sockets, procUp, config, now, cb, state, positions,
                 totalExposure, botRunning, ex, ticks, db, disk, events, commands>>

\* The auto-save timer of a process that runs on: it fires every interval for
\* as long as the process lives.
AutoSaveInterval ==
  /\ procUp
  /\ shutdown.pc = "running"
  /\ LET sv == saveCall(state, writes, now)
     IN state' = sv[1] /\ writes' = sv[2]
  /\ UNCHANGED <<call, matcher, shutdown, sockets, procUp, config, now, cb, positions,
                 totalExposure, botRunning, ex, ticks, db, disk, events, commands>>

\* The opportunity's five seconds run out while execute() awaits the order
\* books (rate limiter, retries).
OppExpires(e) ==
  /\ procUp
  /\ ex[e].pc = "revalidating"
  /\ ~ex[e].expired
  /\ ex' = [ ex EXCEPT ![e].expired = TRUE ]
  /\ UNCHANGED <<call, matcher, shutdown, sockets, procUp, config, now, cb, state, positions, totalExposure,
                 botRunning, ticks, db, disk, writes, events, commands>>

\* The socket of venue v emits 'close' (the connection dropped, or a
\* reconnection attempt failed): wsConnected = false, then
\* handleWebSocketDisconnect(), which returns when the attempts are used up
\* and otherwise counts one more and schedules connectWebSocket().
WsClose(v) ==
  /\ procUp
  /\ sockets[v].connected \/ sockets[v].attempting
  /\ sockets' = [ sockets EXCEPT ![v] =
               IF sockets[v].reconnectAttempts >= maxReconnectAttempts
               THEN [ @ EXCEPT !.connected = FALSE, !.attempting = FALSE ]
               ELSE [ @ EXCEPT !.connected = FALSE, !.attempting = TRUE,
                               !.reconnectAttempts = @ + 1 ] ]
  /\ UNCHANGED <<call, matcher, shutdown, procUp, config, now, cb, state, positions, totalExposure,
                 botRunning, ex, ticks, db, disk, writes, events, commands>>

\* The socket of a reconnection attempt emits 'open'.
WsOpen(v) ==
  /\ procUp
  /\ sockets[v].attempting
  /\ sockets' = [ sockets EXCEPT ![v] = OpenSocket ]
  /\ UNCHANGED <<call, matcher, shutdown, procUp, config, now, cb, state, positions, totalExposure,
                 botRunning, ex, ticks, db, disk, writes, events, commands>>

\* Some component reports a failure of the given type to the breaker.
RecordFailure(type) ==
  /\ procUp
  /\ cb.consecutiveFailures < MaxFailures
  /\ cb.asymmetricExecutions < MaxFailures
  /\ LET w == recordFailure(World(cb, state, writes), type, config, now)
     IN cb' = w.cb /\ state' = w.state /\ writes' = w.writes
  /\ UNCHANGED <<call, matcher, shutdown, sockets, procUp, config, now, positions, totalExposure, botRunning,
                 ex, ticks, db, disk, events, commands>>

\* Some component reports a success to the breaker.
RecordSuccess ==
  /\ procUp
  /\ cb' = recordSuccess(cb)
  /\ UNCHANGED <<call, matcher, shutdown, sockets, procUp, config, now, state, positions, totalExposure,
                 botRunning, ex, ticks, db, disk, writes, events, commands>>

\* Time passes.
AdvanceTime ==
  /\ events < MaxEvents
  /\ events' = events + 1
  /\ now' = now + 1
  /\ UNCHANGED <<call, matcher, shutdown, sockets, procUp, config, cb, state, positions, totalExposure, botRunning,
                 ex, ticks, db, disk, writes, commands>>

\* SIGINT / SIGTERM: shutdown() up to its first await.  stopBotLoop() clears
\* the scan interval and botRunning, stopAutoSave() clears the save timer, and
\* the final save() is started and awaited.
ShutdownStart ==
  /\ procUp
  /\ shutdown.pc = "running"
  /\ botRunning' = FALSE
  /\ LET sv == saveCall(state, writes, now)
     IN /\ state' = sv[1]
        /\ writes' = sv[2]
        /\ shutdown' = [ pc |-> "saving", snapshot |-> << sv[1] >> ]
  /\ UNCHANGED <<call, matcher, sockets, procUp, config, now, cb, positions, totalExposure,
                 ex, ticks, db, disk, events, commands>>

\* The final save() resolved: both connectors are disconnected (their awaits
\* resolve without I/O) and closePool() is awaited.
ShutdownSaved ==
  /\ procUp
  /\ shutdown.pc = "saving"
  /\ \A w \in writes : w.data # shutdown.snapshot[1]
  /\ sockets' = [ v \in Platforms |-> NewSocket ]
  /\ shutdown' = [ shutdown EXCEPT !.pc = "closing" ]
  /\ UNCHANGED <<call, matcher, procUp, config, now, cb, state, positions, totalExposure, botRunning,
                 ex, ticks, db, disk, writes, events, commands>>

\* closePool() and alertBotStopped() resolved: process.exit(0).  Whatever the
\* process was still awaiting is gone with it.
ShutdownExit ==
  /\ procUp
  /\ shutdown.pc = "closing"
  /\ procUp' = FALSE
  /\ writes' = {}
  /\ shutdown' = NotShuttingDown
  /\ UNCHANGED <<call, matcher, sockets, config, now, cb, state, positions, totalExposure, botRunning,
                 ex, ticks, db, disk, events, commands>>

\* The scan loop, execute() and the operator's CLI.
NextEngine ==
  \/ Startup
  \/ \E e \in Slots : ScanTick(e)
  \/ \E e \in Slots : ScanEmpty(e)
  \/ \E e \in Slots, t \in OppTemplates, stale \in BOOLEAN : ScanFound(e, t, stale)
  \/ \E e \in Slots, f \in FetchResults : RevalidateDone(e, f)
  \/ \E e \in Slots, bv \in VenueOutcomes, sv \in VenueOutcomes : LegsSettled(e, bv, sv)
  \/ \E e \in Slots : AlertDone(e)
  \/ \E e \in Slots, i \in BOOLEAN : SaveExecutionDone(e, i)
  \/ CliPause
  \/ CliResume
  \/ \E m \in {"dry_run", "live"} : CliSetMode(m)

\* The state file: the saves that pause(), resume() and the auto-save timer
\* start, their progress on disk, crashes and restarts.
NextStore ==
  \/ Startup
  \/ Crash
  \/ CliPause
  \/ CliResume
  \/ AutoSave
  \/ \E w \in writes : WriteOpen(w)
  \/ \E w \in writes, intact \in BOOLEAN : WriteDone(w, intact)
  \/ AdvanceTime

Spec == Init /\ [][NextEngine]_vars

\* The engine with the opportunities' expiry.
NextTtl ==
  \/ NextEngine
  \/ \E e \in Slots : OppExpires(e)

SpecTtl == Init /\ [][NextTtl]_vars

\* A trading day that has already lost money: an earlier run of the same day
\* left a snapshot with the daily P&L one dollar above the loss limit.
LosingDay ==
  [ createInitialState(0) EXCEPT !.dailyPnL = 100 * Pip - dailyLossLimit,
                                 !.dailyTradeCount = 1 ]

InitLosingDay ==
  /\ procUp = FALSE
  /\ config \in { c \in Configs : c.mode = c.envMode }
  /\ now = 0
  /\ cb = NewCircuitBreaker
  /\ state = createInitialState(0)
  /\ positions = <<>>
  /\ totalExposure = 0
  /\ botRunning = FALSE
  /\ ex = [ e \in Slots |-> IdleSlot ]
  /\ ticks = 0
  /\ db = EmptyBag
  /\ disk = CompleteFile(LosingDay)
  /\ writes = {}
  /\ commands = 0
  /\ events = 0
  /\ sockets = [ v \in Platforms |-> NewSocket ]
  /\ shutdown = NotShuttingDown
  /\ matcher = IdleMatcher
  /\ call = NoCall

\* The engine on venues whose fills may cost more in fees than they earn.
NextLosingDay ==
  \/ NextEngine
  \/ \E e \in Slots, bv \in {"FilledAtCost"}, sv \in VenueOutcomes \cup {"FilledAtCost"} :
        LegsSettled(e, bv, sv)

SpecLosingDay == InitLosingDay /\ [][NextLosingDay]_vars

\* The losing day's engine running on while the clock passes midnight.
NextMidnight ==
  \/ NextLosingDay
  \/ AdvanceTime

SpecMidnight == InitLosingDay /\ [][NextMidnight]_vars

\* The engine on a machine whose state file cannot be written: every
\* writeFile fails, at every auto-save interval, for as long as the process
\* runs.  The process starts, its timer fires and its writes settle.
NextDiskFull ==
  \/ Startup
  \/ \E e \in Slots : ScanTick(e)
  \/ \E e \in Slots : ScanEmpty(e)
  \/ \E e \in Slots, t \in OppTemplates, stale \in BOOLEAN : ScanFound(e, t, stale)
  \/ \E e \in Slots, f \in FetchResults : RevalidateDone(e, f)
  \/ \E e \in Slots, bv \in VenueOutcomes, sv \in VenueOutcomes : LegsSettled(e, bv, sv)
  \/ \E e \in Slots : AlertDone(e)
  \/ \E e \in Slots, i \in BOOLEAN : SaveExecutionDone(e, i)
  \/ AutoSaveInterval
  \/ \E w \in writes : WriteFailed(w)

SpecDiskFull ==
  /\ Init
  /\ [][NextDiskFull]_vars
  /\ WF_vars(Startup)
  /\ WF_vars(AutoSaveInterval)
  /\ WF_vars(\E w \in writes : WriteFailed(w))

\* The state files of a process that starts at noon of the second day: a
\* snapshot of the moment; one whose breaker is paused; one a day old; one of
\* today whose daily loss is beyond the limit.
ReviewTime == 3
ReviewFiles ==
  { CompleteFile(createInitialState(ReviewTime)),
    CompleteFile(setCircuitBreakerState(createInitialState(ReviewTime), TRUE,
                                        "Manual pause via CLI", ReviewTime)),
    CompleteFile(createInitialState(ReviewTime - 2)),
    CompleteFile([ createInitialState(ReviewTime) EXCEPT
                     !.dailyPnL = 0 - dailyLossLimit - Pip, !.dailyTradeCount = 1 ]) }

InitReview ==
  /\ procUp = FALSE
  /\ config \in { c \in Configs : c.mode = c.envMode }
  /\ now = ReviewTime
  /\ cb = NewCircuitBreaker
  /\ state = createInitialState(ReviewTime)
  /\ positions = <<>>
  /\ totalExposure = 0
  /\ botRunning = FALSE
  /\ ex = [ e \in Slots |-> IdleSlot ]
  /\ ticks = 0
  /\ db = EmptyBag
  /\ disk \in ReviewFiles
  /\ writes = {}
  /\ events = 0
  /\ commands = 0
  /\ sockets = [ v \in Platforms |-> NewSocket ]
  /\ shutdown = NotShuttingDown
  /\ matcher = IdleMatcher
  /\ call = NoCall

\* The operator reviews the startup warnings and types 'resume'; the engine
\* runs when its loop has been started.
NextReview ==
  \/ Startup
  \/ CliResume
  \/ \E e \in Slots : ScanTick(e)
  \/ \E e \in Slots : ScanEmpty(e)
  \/ \E e \in Slots, t \in OppTemplates, stale \in BOOLEAN : ScanFound(e, t, stale)
  \/ \E e \in Slots, f \in FetchResults : RevalidateDone(e, f)
  \/ \E e \in Slots, bv \in VenueOutcomes, sv \in VenueOutcomes : LegsSettled(e, bv, sv)
  \/ \E e \in Slots : AlertDone(e)
  \/ \E e \in Slots, i \in BOOLEAN : SaveExecutionDone(e, i)
  \/ \E w \in writes : WriteOpen(w)
  \/ \E w \in writes, intact \in BOOLEAN : WriteDone(w, intact)

\* Every handler that is due runs: the event loop is never idle for ever with
\* work pending.
SpecReview == InitReview /\ [][NextReview]_vars /\ WF_vars(NextReview)

\* The engine with the state file under it: the breaker's pauses and the
\* operator's resume start saves, the saves reach the disk, the process
\* crashes and is started again.  A live deployment; the opportunities are
\* fresh, revalidation sees the first mapping's books or fails, and the
\* execution's row is stored.
InitPersisted ==
  /\ Init
  /\ config.envMode = "live"
  /\ config.maxAsymmetricExecutions = 1

NextPersisted ==
  \/ Startup
  \/ \E e \in Slots : ScanTick(e)
  \/ \E e \in Slots : ScanEmpty(e)
  \/ \E e \in Slots, t \in OppTemplates, stale \in {FALSE} : ScanFound(e, t, stale)
  \/ \E e \in Slots, f \in { g \in FetchResults : g.books \in {NoBooks, BooksPolyCheap} } : RevalidateDone(e, f)
  \/ \E e \in Slots, bv \in VenueOutcomes, sv \in VenueOutcomes : LegsSettled(e, bv, sv)
  \/ \E e \in Slots : AlertDone(e)
  \/ \E e \in Slots, i \in {TRUE} : SaveExecutionDone(e, i)
  \/ CliResume
  \/ Crash
  \/ \E w \in writes : WriteOpen(w)
  \/ \E w \in writes, intact \in BOOLEAN : WriteDone(w, intact)

SpecPersisted == InitPersisted /\ [][NextPersisted]_vars

\* The circuit breaker under every sequence of calls of its methods.
NextBreaker ==
  \/ Startup
  \/ \E type \in FailureTypes : RecordFailure(type)
  \/ RecordSuccess
  \/ CliPause
  \/ CliResume
  \/ AdvanceTime

SpecBreaker == Init /\ [][NextBreaker]_vars

\* The venues' WebSocket connections, with the operator at the CLI.
NextSockets ==
  \/ Startup
  \/ \E v \in Platforms : WsClose(v)
  \/ \E v \in Platforms : WsOpen(v)
  \/ CliPause
  \/ CliResume

SpecSockets == Init /\ [][NextSockets]_vars

\* The state files a starting process may find in its data directory: none, a
\* fresh snapshot without positions, a snapshot (PersistedState.openPositions
\* is a Position[]) that lists one bought leg whose sell leg never filled, or
\* the snapshot of a day that has traded.
UnhedgedSnapshot ==
  [ createInitialState(0) EXCEPT
      !.openPositions = << [ platform |-> "polymarket", eventId |-> Mapping1, side |-> "yes",
                             quantity |-> maxQuantityPerTrade, avgPrice |-> 90 ] >> ]

StateFiles ==
  { AbsentFile, CompleteFile(createInitialState(0)), CompleteFile(UnhedgedSnapshot),
    CompleteFile(LosingDay) }

InitRestart ==
  /\ procUp = FALSE
  /\ config \in { c \in Configs : c.mode = c.envMode }
  /\ now = 0
  /\ cb = NewCircuitBreaker
  /\ state = createInitialState(0)
  /\ positions = <<>>
  /\ totalExposure = 0
  /\ botRunning = FALSE
  /\ ex = [ e \in Slots |-> IdleSlot ]
  /\ ticks = 0
  /\ db = EmptyBag
  /\ disk \in StateFiles
  /\ writes = {}
  /\ events = 0
  /\ commands = 0
  /\ sockets = [ v \in Platforms |-> NewSocket ]
  /\ shutdown = NotShuttingDown
  /\ matcher = IdleMatcher
  /\ call = NoCall

SpecRestart == InitRestart /\ [][NextStore]_vars

\* The scan loop and execute() with the state file's writes and the shutdown
\* signal.
NextShutdown ==
  \/ Startup
  \/ \E e \in Slots : ScanTick(e)
  \/ \E e \in Slots : ScanEmpty(e)
  \/ \E e \in Slots, t \in OppTemplates, stale \in BOOLEAN : ScanFound(e, t, stale)
  \/ \E e \in Slots, f \in FetchResults : RevalidateDone(e, f)
  \/ \E e \in Slots, bv \in VenueOutcomes, sv \in VenueOutcomes : LegsSettled(e, bv, sv)
  \/ \E e \in Slots : AlertDone(e)
  \/ \E e \in Slots, i \in BOOLEAN : SaveExecutionDone(e, i)
  \/ \E w \in writes : WriteOpen(w)
  \/ \E w \in writes, intact \in BOOLEAN : WriteDone(w, intact)
  \/ ShutdownStart
  \/ ShutdownSaved
  \/ ShutdownExit

SpecShutdown == Init /\ [][NextShutdown]_vars

\* The positions callers hand to the RiskManager.
PositionInputs ==
  { [ platform |-> IF side = "yes" THEN "polymarket" ELSE "kalshi",
      eventId |-> eventId, side |-> side, quantity |-> quantity,
      avgPrice |-> IF side = "yes" THEN 90 ELSE 97 ] :
      eventId \in {Mapping1, Mapping2}, side \in {"yes", "no"},
      quantity \in {minQuantityPerTrade, maxQuantityPerTrade} }

\* The connectors' position reports handed to updatePositions.
PositionLists ==
  {<<>>} \cup { <<p>> : p \in PositionInputs }
         \cup { <<p, q>> : p \in { r \in PositionInputs : r.platform = "polymarket" },
                           q \in { r \in PositionInputs : r.platform = "kalshi" } }

\* riskManager.addPosition(position): push and recalculateTotalExposure()
AddPosition(p) ==
  /\ procUp
  /\ Len(positions) < MaxPositions
  /\ positions' = addPosition(positions, p)
  /\ totalExposure' = recalculateTotalExposure(positions')
  /\ UNCHANGED <<call, matcher, shutdown, sockets, procUp, config, now, cb, state, botRunning,
                 ex, ticks, db, disk, writes, events, commands>>

\* riskManager.updatePositions(positions): clear, refill, recalculateTotalExposure()
UpdatePositions(new) ==
  /\ procUp
  /\ positions' = updatePositions(positions, new)
  /\ totalExposure' = recalculateTotalExposure(positions')
  /\ UNCHANGED <<call, matcher, shutdown, sockets, procUp, config, now, cb, state, botRunning,
                 ex, ticks, db, disk, writes, events, commands>>

\* The RiskManager's ledger under every sequence of calls of its two writers.
NextLedger ==
  \/ Startup
  \/ \E p \in PositionInputs : AddPosition(p)
  \/ \E new \in PositionLists : UpdatePositions(new)

SpecLedger == Init /\ [][NextLedger]_vars

----------------------------------------------------------------------------
(* utils/helpers.ts: text and dates.  Strings are sequences of characters. *)

UpperCaseLetters == "ABCDEFGHIJKLMNOPQRSTUVWXYZ"
LowerCaseLetters == "abcdefghijklmnopqrstuvwxyz"

\* \w after toLowerCase
WordCharacters == LowerCaseLetters \o "0123456789_"

CharAt(s, i) == SubSeq(s, i, i)
Rest(s) == SubSeq(s, 2, Len(s))
IsOneOf(c, chars) == \E i \in 1..Len(chars) : CharAt(chars, i) = c

\* String.prototype.includes
Includes(s, t) == \E i \in 1..(Len(s) - Len(t) + 1) : SubSeq(s, i, i + Len(t) - 1) = t

toLowerCaseChar(c) ==
  IF IsOneOf(c, UpperCaseLetters)
  THEN CharAt(LowerCaseLetters, CHOOSE i \in 1..Len(UpperCaseLetters) : CharAt(UpperCaseLetters, i) = c)
  ELSE c

RECURSIVE toLowerCase(_)
toLowerCase(s) ==
  IF s = "" THEN "" ELSE toLowerCaseChar(CharAt(s, 1)) \o toLowerCase(Rest(s))

\* .replace(/[^\w\s]/g, '')
RECURSIVE removePunctuation(_)
removePunctuation(s) ==
  IF s = "" THEN ""
  ELSE (IF IsOneOf(CharAt(s, 1), WordCharacters \o " ") THEN CharAt(s, 1) ELSE "")
         \o removePunctuation(Rest(s))

\* .replace(/\s+/g, ' ')
RECURSIVE collapseWhitespace(_)
collapseWhitespace(s) ==
  IF Len(s) < 2 THEN s
  ELSE IF CharAt(s, 1) = " " /\ CharAt(s, 2) = " " THEN collapseWhitespace(Rest(s))
  ELSE CharAt(s, 1) \o collapseWhitespace(Rest(s))

\* .trim()
RECURSIVE trim(_)
trim(s) ==
  IF s = "" THEN ""
  ELSE IF CharAt(s, 1) = " " THEN trim(Rest(s))
  ELSE IF CharAt(s, Len(s)) = " " THEN trim(SubSeq(s, 1, Len(s) - 1))
  ELSE s

\* normalize(text)
normalize(text) == trim(collapseWhitespace(removePunctuation(toLowerCase(text))))

\* One row of levenshteinDistance's matrix: cur holds the cells 0 .. Len(cur)-1
\* of the row of character bc, prev is the row above.
RECURSIVE LevenshteinRow(_, _, _, _)
LevenshteinRow(a, bc, prev, cur) ==
  IF Len(cur) = Len(a) + 1 THEN cur
  ELSE LET j == Len(cur)
           cell == IF bc = CharAt(a, j) THEN prev[j]
                   ELSE Min(prev[j] + 1, Min(cur[j] + 1, prev[j + 1] + 1))
       IN LevenshteinRow(a, bc, prev, Append(cur, cell))

RECURSIVE LevenshteinRows(_, _, _, _)
LevenshteinRows(a, b, i, prev) ==
  IF i > Len(b) \/ Len(prev) # Len(a) + 1 THEN prev
  ELSE LevenshteinRows(a, b, i + 1, LevenshteinRow(a, CharAt(b, i), prev, <<i>>))

\* levenshteinDistance(a, b)
levenshteinDistance(a, b) ==
  LevenshteinRows(a, b, 1, [ j \in 1..(Len(a) + 1) |-> j - 1 ])[Len(a) + 1]

\* levenshteinSimilarity(a, b) = 1 - distance / maxLength, as a percentage
\* rounded down (so that similarity >= p/100 iff the percentage is >= p)
levenshteinSimilarity(a, b) ==
  LET maxLength == Max(Len(a), Len(b))
  IN IF maxLength = 0 THEN 100
     ELSE ((maxLength - levenshteinDistance(a, b)) * 100) \div maxLength

\* datesMatch(date1, date2, toleranceMs), times in hours
datesMatch(date1, date2, tolerance) == Abs(date1 - date2) <= tolerance

----------------------------------------------------------------------------
(* EventMatcher (core/event-matcher, in core/arbitrage-detector.ts) *)

\* CATEGORY_MAPPINGS, in the order of Object.entries
CATEGORY_MAPPINGS ==
  << <<"politics", "elections", "government", "political">>,
     <<"economics", "fed", "economy", "financial", "finance">>,
     <<"crypto", "cryptocurrency", "bitcoin", "btc", "ethereum", "eth">>,
     <<"sports", "nfl", "nba", "mlb", "soccer", "football">>,
     <<"entertainment", "media", "movies", "oscars", "awards">>,
     <<"science", "tech", "technology", "space", "climate">> >>

SomeKeywordIn(keywords, text) == \E k \in DOMAIN keywords : Includes(text, keywords[k])

\* categoriesCompatible(polymarketTitle, kalshiCategory): the first group that
\* the Kalshi category belongs to decides; an unknown category is compatible.
categoriesCompatible(polymarketTitle, kalshiCategory) ==
  LET normalizedTitle == normalize(polymarketTitle)
      normalizedCategory == normalize(kalshiCategory)
      groups == { g \in DOMAIN CATEGORY_MAPPINGS :
                    SomeKeywordIn(CATEGORY_MAPPINGS[g], normalizedCategory) }
  IN IF groups = {} THEN TRUE
     ELSE LET g == CHOOSE x \in groups : \A y \in groups : x <= y
          IN SomeKeywordIn(CATEGORY_MAPPINGS[g], normalizedTitle)

\* createMapping(polymarket, kalshi, confidence, method)
createMapping(polymarket, kalshi, confidence, method) ==
  [ polymarketConditionId |-> polymarket.conditionId,
    kalshiTicker |-> kalshi.ticker,
    matchConfidence |-> confidence,
    resolutionDate |-> polymarket.endDate,
    matchMethod |-> method,
    isActive |-> TRUE ]

\* The loop of findKalshiEquivalent from candidate i on: the set holding the
\* mapping created for the first candidate that matches, or {} for null.
RECURSIVE MatchFrom(_, _, _)
MatchFrom(polymarket, kalshiMarkets, i) ==
  IF i > Len(kalshiMarkets) THEN {}
  ELSE LET kalshi == kalshiMarkets[i]
           normalizedPolyTitle == normalize(polymarket.title)
           normalizedKalshiTitle == normalize(kalshi.title)
           similarity == levenshteinSimilarity(normalizedPolyTitle, normalizedKalshiTitle)
       IN IF normalizedPolyTitle = normalizedKalshiTitle
          THEN { createMapping(polymarket, kalshi, 100, "exact") }
          ELSE IF similarity >= fuzzyMatchMinSimilarity
          THEN IF requireDateValidation
                  /\ ~datesMatch(polymarket.endDate, kalshi.expirationTime, 24)
               THEN MatchFrom(polymarket, kalshiMarkets, i + 1)
               ELSE IF requireCategoryMatch
                       /\ ~categoriesCompatible(polymarket.title, kalshi.category)
               THEN MatchFrom(polymarket, kalshiMarkets, i + 1)
               ELSE { createMapping(polymarket, kalshi, similarity, "fuzzy") }
          ELSE MatchFrom(polymarket, kalshiMarkets, i + 1)

\* findKalshiEquivalent(polymarket, kalshiMarkets): the cached active mapping
\* of the condition, else the first match of the loop; {} for null.
findKalshiEquivalent(cachedMappings, polymarket, kalshiMarkets) ==
  LET cached == { m \in cachedMappings :
                    m.polymarketConditionId = polymarket.conditionId /\ m.isActive }
  IN IF cached # {} THEN cached ELSE MatchFrom(polymarket, kalshiMarkets, 1)

\* saveMapping's cache update: cachedMappings.set(conditionId, mapping)
cacheSet(cachedMappings, mapping) ==
  { m \in cachedMappings : m.polymarketConditionId # mapping.polymarketConditionId }
    \cup { mapping }

canTradeOnMappingAbove(mapping) ==
  IF mapping.matchConfidence <= minConfidenceThreshold THEN FALSE ELSE TRUE

\* canTradeOnMapping(mapping), confidences as percentages
canTradeOnMapping(mapping) ==
  IF mapping.matchConfidence < minConfidenceThreshold THEN FALSE ELSE TRUE

\* The mappings handed to canTradeOnMapping: confidences around the threshold,
\* active and inactive, of every match method.
MappingInputs ==
  [ matchConfidence : 93..100, isActive : BOOLEAN, matchMethod : {"exact", "fuzzy", "manual"} ]

\* Market titles: the question, the same question without its punctuation, a
\* one-letter variant of it, and another question.
TitleBitcoin == "Will Bitcoin reach $100k by end of 2025?"
TitleBitcoinPlain == "will bitcoin reach 100k by end of 2025"
TitleBitcoins == "Will Bitcoins reach 100k by end of 2025?"
TitleEthereum == "Will Ethereum reach $10k?"

\* The Polymarket market handed to findKalshiEquivalent (times in hours).
PolymarketInputs ==
  [ conditionId : {"condition-123"},
    title : {TitleBitcoin, TitleBitcoins, TitleEthereum},
    endDate : {24} ]

\* The Kalshi candidates: the expiration is the same, within a day on either
\* side, an hour more than a day later, or six months later.
KalshiInputs ==
  [ ticker : {"BTC-100K-2025"},
    title : {TitleBitcoin, TitleBitcoinPlain, TitleBitcoins, TitleEthereum},
    category : {"crypto", "politics", "weather"},
    expirationTime : {0, 24, 48, 49, 4368} ]

\* A second candidate that equals the default Polymarket question.
KalshiSecond ==
  [ ticker |-> "BTC-100K-2025-B", title |-> TitleBitcoin, category |-> "crypto",
    expirationTime |-> 24 ]

KalshiLists ==
  { <<k>> : k \in KalshiInputs }
    \cup { <<k, KalshiSecond>> : k \in KalshiInputs }
    \cup { <<KalshiSecond, k>> : k \in KalshiInputs }

\* A mapping that loadMappings() or addManualMapping() put into the cache.
ManualMapping ==
  [ polymarketConditionId |-> "condition-123", kalshiTicker |-> "BTC-MANUAL",
    matchConfidence |-> 100, resolutionDate |-> 24, matchMethod |-> "manual",
    isActive |-> TRUE ]

\* The calls examined: one call on an EventMatcher with the given cache.
MatcherInputs ==
  { [ op |-> "canTradeOnMapping", mapping |-> m ] : m \in MappingInputs }
    \cup { [ op |-> "findKalshiEquivalent", polymarket |-> p, kalshiMarkets |-> ks ] :
             p \in PolymarketInputs, ks \in KalshiLists }

InitMatcher ==
  /\ procUp = FALSE
  /\ config \in { c \in Configs : c.mode = "dry_run" /\ c.envMode = "dry_run"
                                   /\ c.maxAsymmetricExecutions = 1 }
  /\ now = 0
  /\ cb = NewCircuitBreaker
  /\ state = createInitialState(0)
  /\ positions = <<>>
  /\ totalExposure = 0
  /\ botRunning = FALSE
  /\ ex = [ e \in Slots |-> IdleSlot ]
  /\ ticks = 0
  /\ db = EmptyBag
  /\ disk = AbsentFile
  /\ writes = {}
  /\ events = 0
  /\ commands = 0
  /\ sockets = [ v \in Platforms |-> NewSocket ]
  /\ shutdown = NotShuttingDown
  /\ call = NoCall
  /\ matcher \in { [ cachedMappings |-> c, input |-> i, returned |-> FALSE, result |-> {} ] :
                     c \in { {}, {ManualMapping} }, i \in MatcherInputs }
  /\ matcher.input.op = "canTradeOnMapping" => matcher.cachedMappings = {}
  /\ matcher.input.op = "findKalshiEquivalent"
       => (matcher.cachedMappings = {} \/ Len(matcher.input.kalshiMarkets) = 1)

\* eventMatcher.canTradeOnMapping(mapping)
CanTradeOnMapping ==
  /\ matcher.input.op = "canTradeOnMapping"
  /\ ~matcher.returned
  /\ matcher' = [ matcher EXCEPT !.returned = TRUE,
                                 !.result = canTradeOnMapping(matcher.input.mapping) ]
  /\ UNCHANGED <<call, shutdown, sockets, procUp, config, now, cb, state, positions,
                 totalExposure, botRunning, ex, ticks, db, disk, writes, events, commands>>

\* eventMatcher.findKalshiEquivalent(polymarket, kalshiMarkets); saveMapping's
\* insert succeeds (the cache is updated) or throws (logged, cache unchanged).
FindKalshiEquivalent(saved) ==
  /\ matcher.input.op = "findKalshiEquivalent"
  /\ ~matcher.returned
  /\ LET found == findKalshiEquivalent(matcher.cachedMappings, matcher.input.polymarket,
                                       matcher.input.kalshiMarkets)
         created == found \ matcher.cachedMappings
     IN matcher' = [ matcher EXCEPT
                       !.returned = TRUE,
                       !.result = found,
                       !.cachedMappings =
                          IF saved /\ created # {}
                          THEN cacheSet(@, CHOOSE m \in created : TRUE) ELSE @ ]
  /\ UNCHANGED <<call, shutdown, sockets, procUp, config, now, cb, state, positions,
                 totalExposure, botRunning, ex, ticks, db, disk, writes, events, commands>>

\* The EventMatcher's two questions, each asked once of every input.
NextMatcher ==
  \/ CanTradeOnMapping
  \/ \E saved \in BOOLEAN : FindKalshiEquivalent(saved)

SpecMatcher == InitMatcher /\ [][NextMatcher]_vars

\* Everything but the call under examination, as the constructors leave it.
Constructed ==
  /\ procUp = FALSE
  /\ config \in { c \in Configs : c.mode = "dry_run" /\ c.envMode = "dry_run"
                                   /\ c.maxAsymmetricExecutions = 1 }
  /\ now = 0
  /\ cb = NewCircuitBreaker
  /\ state = createInitialState(0)
  /\ positions = <<>>
  /\ totalExposure = 0
  /\ botRunning = FALSE
  /\ ex = [ e \in Slots |-> IdleSlot ]
  /\ ticks = 0
  /\ db = EmptyBag
  /\ disk = AbsentFile
  /\ writes = {}
  /\ events = 0
  /\ commands = 0
  /\ sockets = [ v \in Platforms |-> NewSocket ]
  /\ shutdown = NotShuttingDown
  /\ matcher = IdleMatcher

\* The order books handed to detectArbitrage: best bids and asks around the
\* fee-and-threshold boundary, sizes on either side of minLiquidityDepth.
BidInputs == {0, 50, 95, 97}
AskInputs == {42, 90, 93, 100}
SizeInputs == {40, 60}
BookInputs ==
  { Book(pb, pbs, pa, pas, kb, kbs, ka, kas) :
      pb \in BidInputs, pa \in AskInputs, kb \in BidInputs, ka \in AskInputs,
      pbs \in SizeInputs, pas \in SizeInputs, kbs \in SizeInputs, kas \in SizeInputs }

\* new ArbitrageDetector(): lastOpportunities is empty; clock is Date.now() in
\* seconds; found is the entry a getLastOpportunity call read from the cache.
NoEntry == [ opp |-> NoOpp, expirationTime |-> NoTime ]
NewDetector ==
  [ op |-> "none", books |-> NoBooks, mapping |-> Mapping1, returned |-> TRUE,
    result |-> NoOpp, found |-> NoEntry, clock |-> 0,
    lastOpportunities |-> [ m \in {Mapping1, Mapping2} |-> NoEntry ] ]

\* createOpportunity's expirationTime: new Date(Date.now() + 5000)
OpportunityTtl == 5

\* detectArbitrage(polymarketBook, kalshiBook, mapping) with its cache update
detectAndCache(d, b, mapping) ==
  LET opportunity == detectArbitrage(b, mapping)
  IN [ d EXCEPT
         !.op = "detectArbitrage", !.books = b, !.mapping = mapping,
         !.returned = TRUE, !.result = opportunity,
         !.lastOpportunities =
            IF opportunity = NoOpp THEN @
            ELSE [ @ EXCEPT ![mapping] = [ opp |-> opportunity,
                                           expirationTime |-> d.clock + OpportunityTtl ] ] ]

InitDetector ==
  /\ Constructed
  /\ call \in { [ NewDetector EXCEPT !.op = "detectArbitrage", !.books = b,
                                      !.returned = FALSE ] : b \in BookInputs }

\* arbitrageDetector.detectArbitrage(polymarketBook, kalshiBook, mapping)
DetectArbitrage ==
  /\ call.op = "detectArbitrage"
  /\ ~call.returned
  /\ call' = detectAndCache(call, call.books, call.mapping)
  /\ UNCHANGED <<matcher, shutdown, sockets, procUp, config, now, cb, state, positions,
                 totalExposure, botRunning, ex, ticks, db, disk, writes, events, commands>>

NextDetector == DetectArbitrage

SpecDetector == InitDetector /\ [][NextDetector]_vars

Pos(eventId, side, quantity, avgPrice) ==
  [ platform |-> IF side = "yes" THEN "polymarket" ELSE "kalshi",
    eventId |-> eventId, side |-> side, quantity |-> quantity, avgPrice |-> avgPrice ]

\* Ledgers the RiskManager may hold when it is asked: empty; one unhedged
\* position of the event; a hedged pair of the event, or of another event,
\* near the caps; another event's positions using up the total cap exactly,
\* or more than it.
RiskLedgers ==
  { <<>>,
    << Pos(Mapping1, "yes", 50, 90) >>,
    << Pos(Mapping1, "yes", 50, 90), Pos(Mapping1, "no", 50, 97) >>,
    << Pos(Mapping2, "yes", 50, 90), Pos(Mapping2, "no", 50, 97) >>,
    << Pos(Mapping2, "yes", 125, 80) >>,
    << Pos(Mapping2, "yes", 125, 80), Pos(Mapping2, "no", 50, 97) >> }

\* Opportunities handed to the RiskManager: cheap and dear buy prices, net
\* profits on either side of the profit threshold, book sizes below and above
\* the per-trade maximum.
RiskOppInputs ==
  { [ id |-> 1, mapping |-> Mapping1, buyPlatform |-> "polymarket",
      sellPlatform |-> "kalshi", buyPrice |-> bp, sellPrice |-> 97, netProfit |-> np,
      buyQuantity |-> bq, sellQuantity |-> sq, maxQuantity |-> mq ] :
      bp \in {10, 90}, np \in {20, 269, 270, 400},
      bq \in {30, 100}, sq \in {40, 100}, mq \in {35, 100} }

\* Proposed quantities: below the minimum, around the trade-value and
\* absolute-profit minima, at and above the per-trade maximum.
QuantityInputs == {0, 1, 5, 6, 50, 51}

\* Daily P&L on either side of the loss limit.
DailyPnLInputs == {0, 0 - dailyLossLimit, 0 - dailyLossLimit - 1}

InitRisk ==
  /\ procUp = TRUE
  /\ config \in { c \in Configs : c.mode = "dry_run" /\ c.envMode = "dry_run"
                                   /\ c.maxAsymmetricExecutions = 1 }
  /\ now = 0
  /\ cb \in { NewCircuitBreaker,
              [ NewCircuitBreaker EXCEPT !.paused = TRUE,
                                         !.pauseReason = "Manual pause via CLI",
                                         !.pausedAt = 0 ] }
  /\ state \in { [ createInitialState(0) EXCEPT
                     !.dailyPnL = pnl,
                     !.circuitBreakerPaused = cb.paused,
                     !.circuitBreakerReason = cb.pauseReason,
                     !.circuitBreakerPausedAt = cb.pausedAt ] : pnl \in DailyPnLInputs }
  /\ positions \in RiskLedgers
  /\ totalExposure = recalculateTotalExposure(positions)
  /\ botRunning = FALSE
  /\ ex = [ e \in Slots |-> IdleSlot ]
  /\ ticks = 0
  /\ db = EmptyBag
  /\ disk = AbsentFile
  /\ writes = {}
  /\ events = 0
  /\ commands = 0
  /\ sockets = [ v \in Platforms |-> NewSocket ]
  /\ shutdown = NotShuttingDown
  /\ matcher = IdleMatcher
  /\ call = NoCall

\* riskManager.validateTrade(opportunity, quantity)
ValidateTrade(opp, quantity) ==
  /\ call = NoCall
  /\ call' = [ op |-> "validateTrade", opportunity |-> opp, quantity |-> quantity,
               result |-> validateTrade(opp, quantity, positions, totalExposure, cb, state) ]
  /\ UNCHANGED <<matcher, shutdown, sockets, procUp, config, now, cb, state, positions,
                 totalExposure, botRunning, ex, ticks, db, disk, writes, events, commands>>

\* riskManager.calculateOptimalQuantity(opportunity)
CalculateOptimalQuantity(opp) ==
  /\ call = NoCall
  /\ call' = [ op |-> "calculateOptimalQuantity", opportunity |-> opp,
               result |-> calculateOptimalQuantity(opp, totalExposure) ]
  /\ UNCHANGED <<matcher, shutdown, sockets, procUp, config, now, cb, state, positions,
                 totalExposure, botRunning, ex, ticks, db, disk, writes, events, commands>>

\* One question asked of the RiskManager in each state it may be in.
NextRisk ==
  \/ \E opp \in RiskOppInputs, quantity \in QuantityInputs : ValidateTrade(opp, quantity)
  \/ \E opp \in RiskOppInputs : CalculateOptimalQuantity(opp)

SpecRisk == InitRisk /\ [][NextRisk]_vars

----------------------------------------------------------------------------
(* withRetry (utils/helpers.ts) *)

\* config.retry.api and config.retry.opportunity
RetryApi ==
  [ maxRetries |-> 3, retryDelayMs |-> 1000, backoffMultiplier |-> 2,
    maxRetryDelayMs |-> 8000,
    retryableErrors |-> << "NETWORK_TIMEOUT", "RATE_LIMIT_SOFT", "CONNECTION_RESET",
                           "HTTP_500", "HTTP_502", "HTTP_503", "HTTP_504" >> ]
RetryOpportunity ==
  [ maxRetries |-> 1, retryDelayMs |-> 500, backoffMultiplier |-> 1,
    maxRetryDelayMs |-> 500,
    retryableErrors |-> << "NETWORK_TIMEOUT", "RATE_LIMIT_SOFT" >> ]
RetryPolicies == { RetryApi, RetryOpportunity }

\* The messages of the errors the wrapped operation may reject with.
ErrorMessages ==
  { "NETWORK_TIMEOUT", "upstream answered HTTP_503", "RATE_LIMIT_SOFT: slow down",
    "timeout of 10000ms exceeded", "Request failed with status code 401" }

\* Math.pow(base, exponent)
RECURSIVE Pow(_, _)
Pow(base, exponent) == IF exponent = 0 THEN 1 ELSE base * Pow(base, exponent - 1)

\* config.retryableErrors.some(errType => lastError?.message?.includes(errType))
isRetryable(policy, message) ==
  \E i \in DOMAIN policy.retryableErrors : Includes(message, policy.retryableErrors[i])

retryDelayFlat(policy, attempt) == Min(policy.retryDelayMs, policy.maxRetryDelayMs)

\* Math.min(retryDelayMs * Math.pow(backoffMultiplier, attempt), maxRetryDelayMs)
retryDelay(policy, attempt) ==
  Min(policy.retryDelayMs * Pow(policy.backoffMultiplier, attempt), policy.maxRetryDelayMs)

InitRetry ==
  /\ Constructed
  /\ call \in { [ op |-> "withRetry", policy |-> p, pc |-> "start", attempt |-> 0,
                  invocations |-> 0, errors |-> <<>>, delays |-> <<>> ] :
                  p \in RetryPolicies }

\* withRetry(operation, config, context) up to its first await: attempt 0, the
\* operation is invoked.
WithRetry ==
  /\ call.op = "withRetry"
  /\ call.pc = "start"
  /\ call' = [ call EXCEPT !.pc = "operation", !.invocations = 1 ]
  /\ UNCHANGED <<matcher, shutdown, sockets, procUp, config, now, cb, state, positions,
                 totalExposure, botRunning, ex, ticks, db, disk, writes, events, commands>>

\* await operation() resolved: withRetry returns its value.
OperationResolved ==
  /\ call.op = "withRetry"
  /\ call.pc = "operation"
  /\ call' = [ call EXCEPT !.pc = "returned" ]
  /\ UNCHANGED <<matcher, shutdown, sockets, procUp, config, now, cb, state, positions,
                 totalExposure, botRunning, ex, ticks, db, disk, writes, events, commands>>

\* await operation() rejected: the catch block throws, or starts the sleep.
OperationRejected(message) ==
  /\ call.op = "withRetry"
  /\ call.pc = "operation"
  /\ call' = IF ~isRetryable(call.policy, message) \/ call.attempt = call.policy.maxRetries
             THEN [ call EXCEPT !.pc = "thrown", !.errors = Append(@, message) ]
             ELSE [ call EXCEPT !.pc = "sleep", !.errors = Append(@, message),
                                !.delays = Append(@, retryDelay(call.policy, call.attempt)) ]
  /\ UNCHANGED <<matcher, shutdown, sockets, procUp, config, now, cb, state, positions,
                 totalExposure, botRunning, ex, ticks, db, disk, writes, events, commands>>

\* await sleep(delay) resolved: attempt++, and the operation is invoked again.
SleepDone ==
  /\ call.op = "withRetry"
  /\ call.pc = "sleep"
  /\ call' = [ call EXCEPT !.pc = "operation", !.attempt = @ + 1, !.invocations = @ + 1 ]
  /\ UNCHANGED <<matcher, shutdown, sockets, procUp, config, now, cb, state, positions,
                 totalExposure, botRunning, ex, ticks, db, disk, writes, events, commands>>

NextRetry ==
  \/ WithRetry
  \/ OperationResolved
  \/ \E message \in ErrorMessages : OperationRejected(message)
  \/ SleepDone

\* The operation's promise settles (the HTTP clients have a request timeout)
\* and the sleep timer fires.
SpecRetry == InitRetry /\ [][NextRetry]_vars /\ WF_vars(NextRetry)

\* How far the detector's clock runs, in seconds.
MaxClock == 11

getLastOpportunityUnchecked(d, mappingId) ==
  [ d EXCEPT !.op = "getLastOpportunity", !.mapping = mappingId,
             !.found = d.lastOpportunities[mappingId],
             !.result = d.lastOpportunities[mappingId] ]

\* getLastOpportunity(mappingId)
getLastOpportunity(d, mappingId) ==
  LET opp == d.lastOpportunities[mappingId]
  IN IF opp # NoEntry /\ opp.expirationTime < d.clock
     THEN [ d EXCEPT !.op = "getLastOpportunity", !.mapping = mappingId, !.found = opp,
                     !.result = NoEntry,
                     !.lastOpportunities = [ @ EXCEPT ![mappingId] = NoEntry ] ]
     ELSE [ d EXCEPT !.op = "getLastOpportunity", !.mapping = mappingId, !.found = opp,
                     !.result = opp ]

\* clearExpired()
clearExpired(d) ==
  [ d EXCEPT !.op = "clearExpired",
             !.lastOpportunities =
                [ id \in DOMAIN @ |->
                    IF @[id] # NoEntry /\ @[id].expirationTime < d.clock THEN NoEntry
                    ELSE @[id] ] ]

InitCache ==
  /\ Constructed
  /\ call = NewDetector

\* The scan calls detectArbitrage on a mapping's books.
DetectOn(b, mapping) ==
  /\ call' = detectAndCache(call, b, mapping)
  /\ UNCHANGED <<matcher, shutdown, sockets, procUp, config, now, cb, state, positions,
                 totalExposure, botRunning, ex, ticks, db, disk, writes, events, commands>>

\* The CLI's 'opportunities' command asks for a mapping's last opportunity.
GetLastOpportunity(mappingId) ==
  /\ call' = getLastOpportunity(call, mappingId)
  /\ UNCHANGED <<matcher, shutdown, sockets, procUp, config, now, cb, state, positions,
                 totalExposure, botRunning, ex, ticks, db, disk, writes, events, commands>>

\* The scan tick calls clearExpired().
ClearExpired ==
  /\ call' = clearExpired(call)
  /\ UNCHANGED <<matcher, shutdown, sockets, procUp, config, now, cb, state, positions,
                 totalExposure, botRunning, ex, ticks, db, disk, writes, events, commands>>

\* Time passes between two calls.
ClockAdvance(seconds) ==
  /\ call.clock + seconds <= MaxClock
  /\ call' = [ call EXCEPT !.clock = @ + seconds ]
  /\ UNCHANGED <<matcher, shutdown, sockets, procUp, config, now, cb, state, positions,
                 totalExposure, botRunning, ex, ticks, db, disk, writes, events, commands>>

NextCache ==
  \/ \E b \in {BooksPolyCheap, BooksFlat}, mapping \in {Mapping1, Mapping2} : DetectOn(b, mapping)
  \/ \E mappingId \in {Mapping1, Mapping2} : GetLastOpportunity(mappingId)
  \/ ClearExpired
  \/ \E seconds \in {1, OpportunityTtl} : ClockAdvance(seconds)

SpecCache == InitCache /\ [][NextCache]_vars

SpecStore == Init /\ [][NextStore]_vars

----------------------------------------------------------------------------
(* Properties *)

Mappings == { t.mapping : t \in OppTemplates }

\* C1: no order is placed on either venue while the circuit breaker is
\* paused: the step in which execute() calls placeOrder for its two legs
\* (revalidation done, mode live) is never taken with the breaker paused,
\* also when the pause came while execute() was awaiting revalidation.
C1_NoOrderWhilePaused ==
  [][ \A e \in Slots :
        (ex[e].pc = "revalidating" /\ ex'[e].pc = "firing") => ~cb.paused ]_vars

C3_TransportErrorIsAsymmetric ==
  [][ \A e \in Slots, bv \in VenueOutcomes, sv \in VenueOutcomes :
        ((bv = "TransportError") # (sv = "TransportError") /\ LegsSettled(e, bv, sv))
          => /\ ex'[e].outcome = "asymmetric"
             /\ cb'.asymmetricExecutions = cb.asymmetricExecutions + 1 ]_vars

\* C4: for any mapping, at most one execute() call is active at a time: two
\* scan callbacks are never both inside execute() on the same mapping.
C4_OneExecutionPerMapping ==
  \A e1 \in Slots, e2 \in Slots :
    (e1 # e2 /\ InExecute(ex[e1]) /\ InExecute(ex[e2]))
      => ex[e1].opp.mapping # ex[e2].opp.mapping

\* The ledger is within both exposure caps.
WithinCaps(ps, total) ==
  /\ total <= maxTotalExposure
  /\ \A m \in Mappings : getEventExposure(ps, m) <= maxExposurePerEvent

\* C5: after any sequence of risk-approved executions the ledger's total
\* exposure never exceeds maxTotalExposure and no mapping's exposure exceeds
\* maxExposurePerEvent, counting both positions a both-filled execution adds.
\* Stated step by step: a both-filled execution whose quantity validateTrade
\* approves against the ledger as it stands when the legs settle takes a
\* ledger that is within the caps to a ledger that is within the caps.
C5_ExposureWithinCaps ==
  [][ \A e \in Slots :
        ( /\ WithinCaps(positions, totalExposure)
          /\ ex[e].pc = "firing"
          /\ approved(ex[e].opp, ex[e].qty, positions, totalExposure, cb, state)
          /\ LegsSettled(e, "Filled", "Filled") )
          => WithinCaps(positions', totalExposure') ]_vars

\* C6: a pause is durable before it is observable: whenever isPaused() is
\* true, the state file is a complete snapshot that holds the paused flag.
C6_PauseDurableBeforeObservable ==
  (procUp /\ cb.paused) =>
    (disk.kind = "complete" /\ disk.data[1].circuitBreakerPaused)

\* The state load() returns for a file as the process starts.
LoadedFrom(f) == load(f, createInitialState(now), now)

\* C7: if the process is interrupted during a snapshot write, the load() of
\* the next start returns the complete previous snapshot or the complete new
\* snapshot, never a state that differs from both.
C7_LoadOldOrNew ==
  [][ (Startup /\ disk.kind = "partial") =>
        \/ state' = LoadedFrom(CompleteFile(disk.data[1]))
        \/ state' = LoadedFrom(IF disk.prev = <<>> THEN AbsentFile
                               ELSE CompleteFile(disk.prev[1])) ]_vars

\* C8: after an asymmetric execution (one leg Filled, the other Rejected) the
\* ledger holds exactly one new position, the one of the filled leg.
C8_AsymmetricRecordsFilledLeg ==
  [][ \A e \in Slots, bv \in VenueOutcomes, sv \in VenueOutcomes :
        ( /\ {bv, sv} = {"Filled", "Rejected"}
          /\ LegsSettled(e, bv, sv) )
          => /\ Len(positions') = Len(positions) + 1
             /\ positions'[Len(positions')].eventId = ex[e].opp.mapping
             /\ positions'[Len(positions')].quantity = ex[e].qty
             /\ positions'[Len(positions')].platform =
                  (IF bv = "Filled" THEN ex[e].opp.buyPlatform
                   ELSE ex[e].opp.sellPlatform) ]_vars

\* Rows of the executions table that belong to one opportunity.
RowsFor(d, id) ==
  LET rows == { r \in BagToSet(d) : r.opportunityId = id }
  IN IF rows = {} THEN 0
     ELSE LET RECURSIVE Sum(_)
              Sum(S) == IF S = {} THEN 0
                        ELSE LET r == CHOOSE x \in S : TRUE
                             IN CopiesIn(r, d) + Sum(S \ {r})
          IN Sum(rows)

\* C9: every call of execute() produces exactly one persisted execution
\* record, whatever its outcome.  Stated at the return of a call that got
\* past the risk check (revalidation failed, both rejected, both filled,
\* asymmetric, dry run); the calls that return before (breaker paused, risk
\* rejected) insert nothing either.
C9_OneRecordPerExecution ==
  [][ \A e \in Slots :
        (InExecute(ex[e]) /\ ex'[e].pc = "idle" /\ procUp')
          => RowsFor(db', ex[e].opp.id) = 1 ]_vars

\* A step of slot e that belongs to a live execution.
LiveStep(e) ==
  /\ ex'[e] # ex[e]
  /\ procUp /\ procUp'
  /\ ex[e].outcome # "dry_run"
  /\ ex'[e].outcome # "dry_run"

\* C10: a live execution in which both legs fill adds exactly two positions
\* to the ledger (one on the buy venue, one on the sell venue, same quantity)
\* and increments the daily trade counter by exactly one; no other step of a
\* live execution changes the ledger or the counter.
C10_BothFilledBookkeeping ==
  [][ \A e \in Slots :
        LiveStep(e) =>
          IF LegsSettled(e, "Filled", "Filled")
          THEN /\ Len(positions') = Len(positions) + 2
               /\ SubSeq(positions', 1, Len(positions)) = positions
               /\ LET p == positions'[Len(positions) + 1]
                      q == positions'[Len(positions) + 2]
                  IN /\ p.platform = ex[e].opp.buyPlatform
                     /\ q.platform = ex[e].opp.sellPlatform
                     /\ p.quantity = q.quantity
                     /\ p.quantity = ex[e].qty
               /\ state'.dailyTradeCount = state.dailyTradeCount + 1
          ELSE /\ positions' = positions
               /\ state'.dailyTradeCount = state.dailyTradeCount ]_vars

\* C10 witness: a live execution has just had both legs filled.
C10_Witness ==
  \E e \in Slots :
    /\ ex[e].pc = "saving" /\ ex[e].outcome = "both_filled"
    /\ Len(positions) = 2
    /\ state.dailyTradeCount = 1

\* An execute() call that has fired its legs.
Fired(slot) == slot.buySent + slot.sellSent > 0

\* C11: within one execute() call each leg's order is submitted to its venue
\* at most once, and once the legs are fired the call never goes back to
\* revalidation or to firing: it only classifies, alerts, saves and returns.
C11_LegSubmittedAtMostOnce ==
  [][ \A e \in Slots :
        /\ ex'[e].buySent <= 1
        /\ ex'[e].sellSent <= 1
        /\ (Fired(ex[e]) /\ ex'[e] # ex[e])
             => /\ ex'[e].pc \in {"idle", "alerting", "saving"}
                /\ (ex'[e].pc # "idle" =>
                      /\ ex'[e].buySent = ex[e].buySent
                      /\ ex'[e].sellSent = ex[e].sellSent) ]_vars

\* C11 witness: a leg failed after both were fired and the call moved on to
\* the alert with each order submitted once.
C11_Witness ==
  \E e \in Slots :
    ex[e].pc = "alerting" /\ ex[e].buySent = 1 /\ ex[e].sellSent = 1

C13_NoFireAfterExpiry ==
  [][ \A e \in Slots :
        (ex[e].pc = "revalidating" /\ ex'[e].pc = "firing") => ~ex[e].expired ]_vars

\* C14: revalidation lets the execution go on only if the fresh books still
\* hold an opportunity in the original direction (same buy and sell venue)
\* with net profit at least the original's times (1 - maxSlippage); stated
\* for the executions that go on to fire their orders.
C14_RevalidationKeepsDirection ==
  [][ \A e \in Slots, f \in FetchResults :
        (RevalidateDone(e, f) /\ ex'[e].pc = "firing")
          => /\ f.ok
             /\ LET fresh == detectArbitrage(f.books, ex[e].opp.mapping)
                IN /\ fresh # NoOpp
                   /\ fresh.buyPlatform = ex[e].opp.buyPlatform
                   /\ fresh.sellPlatform = ex[e].opp.sellPlatform
                   /\ fresh.netProfit * 100
                        >= (100 - maxSlippagePct) * ex[e].opp.netProfit ]_vars

\* Reconnection to venue v is exhausted: the socket is down, the attempts are
\* used up and no further attempt is scheduled.
Exhausted(sock) ==
  /\ ~sock.connected /\ ~sock.attempting
  /\ sock.reconnectAttempts >= maxReconnectAttempts

\* C16: when WebSocket reconnection to a venue is exhausted,
\* recordFailure(CONNECTION_LOST) is reported to the circuit breaker and the
\* breaker becomes paused: the step that exhausts the reconnection leaves the
\* breaker paused with one more failure counted.
C16_ReconnectExhaustedPauses ==
  [][ \A v \in Platforms :
        (~Exhausted(sockets[v]) /\ Exhausted(sockets'[v]))
          => /\ cb'.paused
             /\ cb'.consecutiveFailures = cb.consecutiveFailures + 1 ]_vars

\* C15: when the daily P&L falls below -dailyLossLimit the circuit breaker is
\* tripped with DAILY_LOSS_LIMIT: the breaker is paused whenever the daily
\* P&L is below the limit.
C15_LossLimitTripsBreaker ==
  (procUp /\ state.dailyPnL < 0 - dailyLossLimit) => cb.paused

\* C17: recordFailure(RATE_LIMIT_EXCEEDED) never moves the breaker from
\* unpaused to paused, whatever the counters (below their thresholds) are.
C17_RateLimitNeverPauses ==
  [][ ( /\ ~cb.paused
         /\ cb.consecutiveFailures < config.maxConsecutiveFailures
         /\ cb.asymmetricExecutions < config.maxAsymmetricExecutions
         /\ RecordFailure("RATE_LIMIT_EXCEEDED") )
       => ~cb'.paused ]_vars

\* C18: from an unpaused breaker, recordFailure(EXECUTION_FAILURE) counts one
\* more consecutive failure and pauses the breaker exactly when that brings
\* the count to maxConsecutiveFailures; recordSuccess puts the count back to
\* zero and pauses nothing.
C18_PausesAtConsecutiveThreshold ==
  [][ /\ (~cb.paused /\ RecordFailure("EXECUTION_FAILURE"))
         => /\ cb'.consecutiveFailures = cb.consecutiveFailures + 1
            /\ cb'.paused <=> (cb'.consecutiveFailures = config.maxConsecutiveFailures)
      /\ RecordSuccess
         => /\ cb'.consecutiveFailures = 0
            /\ cb'.paused = cb.paused ]_vars

\* C18 witness: the breaker was paused by the third failure after a success
\* had restarted the count (the earlier asymmetric execution is still
\* counted in asymmetricExecutions).
C18_Witness ==
  /\ cb.paused
  /\ cb.pauseReason = "consecutive failures"
  /\ cb.consecutiveFailures = config.maxConsecutiveFailures
  /\ cb.asymmetricExecutions = 1

\* C19: one recordFailure(CONNECTION_LOST) or recordFailure(DAILY_LOSS_LIMIT)
\* leaves the breaker paused, whatever the counters were.
C19_ImmediatePause ==
  [][ \A type \in {"CONNECTION_LOST", "DAILY_LOSS_LIMIT"} :
        RecordFailure(type) => cb'.paused ]_vars

\* C19 witness: the breaker was paused by the first failure reported.
C19_Witness ==
  /\ cb.paused
  /\ cb.consecutiveFailures = 1
  /\ cb.pauseReason \in {"Connection lost to exchange", "Daily loss limit reached"}

\* C20: pause is idempotent: a pause of a breaker that is already paused, by
\* the CLI or by a rule of recordFailure, leaves the reason and the time of
\* the first pause, in the breaker and in the StateManager's state, and
\* starts no save.
C20_PauseIdempotent ==
  [][ (cb.paused /\ (CliPause \/ \E type \in FailureTypes : RecordFailure(type)))
        => /\ cb'.paused
           /\ cb'.pauseReason = cb.pauseReason
           /\ cb'.pausedAt = cb.pausedAt
           /\ state' = state
           /\ writes' = writes ]_vars

\* C20 witness: a breaker paused by hand has since had the consecutive-failure
\* rule fire on it, at a later time, and still carries the first pause.
C20_Witness ==
  /\ cb.paused
  /\ cb.pauseReason = "Manual pause via CLI"
  /\ cb.consecutiveFailures >= config.maxConsecutiveFailures
  /\ cb.pausedAt < now

\* C21: after any call of resume(), paused or not before it, both failure
\* counters are zero and the breaker is not paused.
C21_ResumeClearsCounters ==
  [][ CliResume => /\ cb'.consecutiveFailures = 0
                   /\ cb'.asymmetricExecutions = 0
                   /\ ~cb'.paused ]_vars

\* C22: recordSuccess() sets consecutiveFailures to 0 and changes nothing
\* else: paused, reason, time of pause and the asymmetric count stay, and so
\* does the StateManager's state.
C22_SuccessResetsOnlyConsecutive ==
  [][ RecordSuccess => /\ cb' = [ cb EXCEPT !.consecutiveFailures = 0 ]
                       /\ state' = state
                       /\ writes' = writes ]_vars

\* C22 witness: a breaker paused by the asymmetric rule, which recordFailure
\* left with a positive consecutive count, has had a success reported and is
\* still paused with its asymmetric count.
C22_Witness ==
  /\ cb.paused
  /\ cb.pauseReason = "asymmetric executions - manual review required"
  /\ cb.asymmetricExecutions >= 1
  /\ cb.consecutiveFailures = 0

\* Open positions without matching hedges: some position has no position of
\* the other side, on the same event and of the same quantity, next to it.
Unhedged(ps) ==
  \E i \in DOMAIN ps :
    ~ \E j \in DOMAIN ps : /\ ps[j].eventId = ps[i].eventId
                           /\ ps[j].side # ps[i].side
                           /\ ps[j].quantity = ps[i].quantity

C24_ShutdownWaitsForInFlight ==
  [][ (ShutdownSaved \/ ShutdownExit) => \A e \in Slots : ex[e].pc # "firing" ]_vars

\* The positions of a list, without their order.
PositionBag(ps) == [ p \in { ps[i] : i \in DOMAIN ps } |->
                       Cardinality({ i \in DOMAIN ps : ps[i] = p }) ]

\* C25: at every quiescent point (no execution in progress) the RiskManager's
\* ledger and the StateManager's open positions hold the same positions.
C25_LedgerEqualsStore ==
  (procUp /\ \A e \in Slots : ex[e].pc = "idle")
    => PositionBag(positions) = PositionBag(state.openPositions)

\* quantity * avgPrice added up over the positions at the given indices
RECURSIVE ExposureOver(_, _)
ExposureOver(ps, idx) ==
  IF idx = {} THEN 0
  ELSE LET i == CHOOSE j \in idx : TRUE
       IN ps[i].quantity * ps[i].avgPrice + ExposureOver(ps, idx \ {i})

\* C26: after any sequence of addPosition and updatePositions calls,
\* totalExposure is the sum of quantity * avgPrice over exactly the positions
\* the ledger holds.
C26_ExposureIsLedgerSum ==
  totalExposure = ExposureOver(positions, DOMAIN positions)

\* C26 witness: the ledger was replaced by a connector report and then grew
\* by a later addPosition of a different size.
C26_Witness ==
  /\ Len(positions) = MaxPositions
  /\ positions[1].platform = "polymarket" /\ positions[2].platform = "kalshi"
  /\ positions[1].quantity # positions[3].quantity
  /\ totalExposure > 0

\* C27: when the state file's tradingDate differs from today's UTC date as
\* load() runs, the loaded state has zero daily P&L, trade count and volume
\* and today's date; no later read in the same process sees another date.
C27_NewDayResetsCounters ==
  [][ /\ ( /\ Startup
           /\ disk.kind = "complete"
           /\ disk.data[1].tradingDate # getTodayString(now) )
         => /\ state'.dailyPnL = 0
            /\ state'.dailyTradeCount = 0
            /\ state'.dailyVolumeUsd = 0
            /\ state'.tradingDate = getTodayString(now)
      /\ (procUp /\ procUp') => state'.tradingDate = state.tradingDate ]_vars

\* C27 witness: the process runs on the day after the one whose losses and
\* trade count the state file still holds, and reads zero counters.
C27_Witness ==
  /\ procUp
  /\ disk.kind = "complete"
  /\ disk.data[1].dailyPnL < 0 /\ disk.data[1].dailyTradeCount = 1
  /\ disk.data[1].tradingDate < state.tradingDate
  /\ state.dailyPnL = 0 /\ state.dailyTradeCount = 0 /\ state.dailyVolumeUsd = 0

\* The fields of a PersistedState the round trip is about.
PublicFields(s) ==
  << s.dailyPnL, s.dailyTradeCount, s.dailyVolumeUsd,
     s.circuitBreakerPaused, s.circuitBreakerReason, s.circuitBreakerPausedAt,
     s.openPositions, s.lastSuccessfulTrade >>

\* C28: snapshot round trip: when a save() has completed, a fresh load() on
\* the same UTC day returns a state whose daily counters, breaker fields,
\* open positions and last-trade time equal those of the state the save()
\* serialised.
C28_SnapshotRoundTrip ==
  [][ \A w \in writes, intact \in BOOLEAN :
        (WriteDone(w, intact) /\ w.data.tradingDate = getTodayString(now))
          => PublicFields(LoadedFrom(disk')) = PublicFields(w.data) ]_vars

\* The round trip of a save() that no other writeFile call overlapped.
C28_SoleWriterRoundTrip ==
  [][ \A w \in writes :
        ( /\ WriteDone(w, TRUE)
          /\ ~ \E w2 \in writes \ {w} : w2.started
          /\ w.data.tradingDate = getTodayString(now) )
          => PublicFields(LoadedFrom(disk')) = PublicFields(w.data) ]_vars

\* C29: canTradeOnMapping(m) is true exactly when the mapping is active and
\* its confidence is at least the minimum confidence threshold.
C29_CanTradeIffActiveAndConfident ==
  (matcher.input.op = "canTradeOnMapping" /\ matcher.returned)
    => ( matcher.result <=> ( /\ matcher.input.mapping.isActive
                              /\ matcher.input.mapping.matchConfidence >= minConfidenceThreshold ) )

\* C29 as the code has it: canTradeOnMapping(m) is true exactly when the
\* mapping's confidence is at least the minimum confidence threshold; it does
\* not look at isActive (the scan hands it getActiveMappings() only).
C29_CanTradeIffConfident ==
  (matcher.input.op = "canTradeOnMapping" /\ matcher.returned)
    => ( matcher.result
           <=> matcher.input.mapping.matchConfidence >= minConfidenceThreshold )

\* An inactive mapping exactly at the threshold was judged tradable.
C29_Witness ==
  /\ matcher.input.op = "canTradeOnMapping"
  /\ matcher.returned
  /\ ~matcher.input.mapping.isActive
  /\ matcher.input.mapping.matchConfidence = minConfidenceThreshold
  /\ matcher.result = TRUE

\* C30: with date validation enabled the matcher creates no mapping for a
\* candidate whose expiration differs from the Polymarket market's end date
\* by more than the 24-hour tolerance, exact title match or not.
C30_NoMappingWhenDatesDiffer ==
  ( /\ matcher.input.op = "findKalshiEquivalent"
    /\ matcher.returned
    /\ requireDateValidation )
    => \A m \in matcher.result \ {ManualMapping} :
         \A i \in DOMAIN matcher.input.kalshiMarkets :
           LET kalshi == matcher.input.kalshiMarkets[i]
           IN kalshi.ticker = m.kalshiTicker
                => datesMatch(matcher.input.polymarket.endDate, kalshi.expirationTime, 24)

\* The confidence the matcher assigns to a candidate: 1.0 for equal
\* normalized titles, the similarity otherwise.
CandidateConfidence(polymarket, kalshi) ==
  IF normalize(polymarket.title) = normalize(kalshi.title) THEN 100
  ELSE levenshteinSimilarity(normalize(polymarket.title), normalize(kalshi.title))

\* A candidate that passes the similarity threshold and the guards.
Survives(polymarket, kalshi) ==
  /\ CandidateConfidence(polymarket, kalshi) >= fuzzyMatchMinSimilarity
  /\ requireDateValidation => datesMatch(polymarket.endDate, kalshi.expirationTime, 24)
  /\ requireCategoryMatch => categoriesCompatible(polymarket.title, kalshi.category)

\* C31: when several candidates pass the similarity threshold and the guards,
\* the mapping returned has the highest confidence among them, whatever the
\* order of the candidates in the list.
C31_HighestConfidenceReturned ==
  (matcher.input.op = "findKalshiEquivalent" /\ matcher.returned)
    => \A m \in matcher.result \ {ManualMapping} :
         \A i \in DOMAIN matcher.input.kalshiMarkets :
           Survives(matcher.input.polymarket, matcher.input.kalshiMarkets[i])
             => CandidateConfidence(matcher.input.polymarket, matcher.input.kalshiMarkets[i])
                  <= m.matchConfidence

\* The claimed inequality for buying at buyPrice on one venue and selling at
\* sellPrice on the other (hundredths of a Pip on both sides):
\* sell_price > buy_price + est_fees + min_profit_threshold * buy_price
ClearsThreshold(buyPlatform, buyPrice, sellPlatform, sellPrice) ==
  sellPrice * Pip * 100
    > buyPrice * Pip * 100
        + estimateFees(buyPlatform, sellPlatform, buyPrice, sellPrice) * 100
        + tradingMinProfitThresholdPct * buyPrice * Pip

\* C32: every opportunity detectArbitrage returns buys on one venue and sells
\* on the other at prices that clear fees and the profit threshold, and it
\* returns none when neither direction of the books clears them.
C32_EmittedOpportunityClearsThreshold ==
  (call.op = "detectArbitrage" /\ call.returned)
    => /\ call.result # NoOpp
            => /\ call.result.buyPlatform # call.result.sellPlatform
               /\ ClearsThreshold(call.result.buyPlatform, call.result.buyPrice,
                                  call.result.sellPlatform, call.result.sellPrice)
               /\ \/ /\ call.result.buyPlatform = "polymarket"
                     /\ call.result.buyPrice = call.books.polyAsk
                     /\ call.result.sellPrice = call.books.kalshiBid
                  \/ /\ call.result.buyPlatform = "kalshi"
                     /\ call.result.buyPrice = call.books.kalshiAsk
                     /\ call.result.sellPrice = call.books.polyBid
       /\ ( /\ ~ClearsThreshold("polymarket", call.books.polyAsk, "kalshi", call.books.kalshiBid)
            /\ ~ClearsThreshold("kalshi", call.books.kalshiAsk, "polymarket", call.books.polyBid) )
            => call.result = NoOpp

\* Both directions cleared the threshold and the better one was returned.
C32_Witness ==
  /\ call.op = "detectArbitrage"
  /\ call.returned
  /\ call.result # NoOpp
  /\ call.result.buyPlatform = "kalshi"
  /\ ClearsThreshold("polymarket", call.books.polyAsk, "kalshi", call.books.kalshiBid)

\* The blocking guards of the risk validator, as inequalities that must hold.
GuardsHold(opp, quantity) ==
  /\ ~cb.paused
  /\ totalExposure + quantity * opp.buyPrice <= maxTotalExposure
  /\ getEventExposure(positions, opp.mapping) + quantity * opp.buyPrice <= maxExposurePerEvent
  /\ ~ImbalanceExceeded(positions, opp.mapping)
  /\ state.dailyPnL >= 0 - dailyLossLimit
  /\ opp.netProfit * 100 >= minProfitThresholdPct * opp.buyPrice * Pip
  /\ quantity >= minQuantityPerTrade
  /\ quantity <= maxQuantityPerTrade
  /\ quantity * opp.buyPrice >= minTradeValueUsd
  /\ quantity * opp.netProfit >= minProfitUsd

\* C33: validateTrade approves exactly when every blocking guard holds, and
\* every rejection carries at least one reason.
C33_ApprovedIffGuardsHold ==
  call.op = "validateTrade"
    => /\ call.result.approved <=> GuardsHold(call.opportunity, call.quantity)
       /\ ~call.result.approved => Len(call.result.reasons) > 0

\* A trade on a hedged ledger rejected for the paused breaker alone.
C33_Witness ==
  /\ call.op = "validateTrade"
  /\ ~call.result.approved
  /\ call.result.reasons = <<1>>
  /\ Len(positions) = 2

\* min(buy_available, sell_available, max_qty, max_qty_per_trade,
\* floor(remaining_exposure / buy_price)), lower-bounded by min_qty
ClaimedOptimalQuantity(opp) ==
  LET remainingExposure == maxTotalExposure - totalExposure
      floored == IF remainingExposure >= 0 THEN remainingExposure \div opp.buyPrice
                 ELSE 0 - ((0 - remainingExposure + opp.buyPrice - 1) \div opp.buyPrice)
      capped == Min(Min(Min(opp.buyQuantity, opp.sellQuantity),
                        Min(opp.maxQuantity, maxQuantityPerTrade)), floored)
  IN Max(capped, minQuantityPerTrade)

\* C34: calculateOptimalQuantity returns the claimed minimum for every
\* remaining exposure, zero and negative included.
C34_OptimalQuantityIsClaimedMinimum ==
  call.op = "calculateOptimalQuantity"
    => call.result = ClaimedOptimalQuantity(call.opportunity)

\* C34 where exposure remains: with remaining exposure above zero
\* calculateOptimalQuantity returns the claimed minimum.
C34_OptimalQuantityWhileExposureRemains ==
  (call.op = "calculateOptimalQuantity" /\ maxTotalExposure - totalExposure > 0)
    => call.result = ClaimedOptimalQuantity(call.opportunity)

\* An error the policy classifies as retryable: its message names one of the
\* policy's retryable error types.
ClassifiedRetryable(policy, message) ==
  \E i \in DOMAIN policy.retryableErrors :
    \E at \in 1..(Len(message) - Len(policy.retryableErrors[i]) + 1) :
      SubSeq(message, at, at + Len(policy.retryableErrors[i]) - 1) = policy.retryableErrors[i]

\* What holds of a call of withRetry at every moment: the operation has been
\* invoked at most maxRetries + 1 times; there was one wait per retry, the
\* wait before retry k being min(base * multiplier^k, cap); every error that
\* was followed by a wait was retryable; an error that is not retryable is
\* thrown at once, with no wait after it.
RetryDiscipline ==
  call.op = "withRetry"
    => /\ call.invocations <= call.policy.maxRetries + 1
       /\ Len(call.delays) = (IF call.pc = "sleep" THEN call.invocations
                              ELSE IF call.pc = "start" THEN 0
                              ELSE call.invocations - 1)
       /\ \A k \in DOMAIN call.delays :
            /\ call.delays[k]
                 = Min(call.policy.retryDelayMs * Pow(call.policy.backoffMultiplier, k - 1),
                       call.policy.maxRetryDelayMs)
            /\ ClassifiedRetryable(call.policy, call.errors[k])
       /\ \A k \in DOMAIN call.errors :
            ~ClassifiedRetryable(call.policy, call.errors[k])
              => (k = Len(call.errors) /\ call.pc = "thrown" /\ Len(call.delays) = k - 1)

\* C35: a call of withRetry keeps the retry discipline and terminates: it
\* returns the operation's value or rethrows its error.
C35_RetryBoundedAndTerminates ==
  /\ []RetryDiscipline
  /\ <>(call.op = "withRetry" /\ call.pc \in {"returned", "thrown"})

\* The API policy used up: four invocations, waits of 1 s, 2 s and 4 s, and
\* the last retryable error rethrown.
C35_Witness ==
  /\ call.op = "withRetry"
  /\ call.pc = "thrown"
  /\ call.invocations = 4
  /\ call.delays = <<1000, 2000, 4000>>

\* C36: getLastOpportunity never returns an opportunity whose expiration time
\* is earlier than the current time, and returns none for a cached entry that
\* has expired, whether clearExpired has removed it or not.
C36_NoExpiredOpportunityReturned ==
  [][ \A mappingId \in {Mapping1, Mapping2} :
        GetLastOpportunity(mappingId)
          => /\ call'.result # NoEntry => call'.result.expirationTime >= call'.clock
             /\ ( /\ call.lastOpportunities[mappingId] # NoEntry
                  /\ call.lastOpportunities[mappingId].expirationTime < call.clock )
                  => call'.result = NoEntry ]_vars

\* An expired entry was looked up and none was returned, while the other
\* mapping's expired entry is still in the cache (clearExpired has not run).
C36_Witness ==
  /\ call.op = "getLastOpportunity"
  /\ call.found # NoEntry
  /\ call.found.expirationTime < call.clock
  /\ call.result = NoEntry
  /\ \E id \in {Mapping1, Mapping2} :
       /\ call.lastOpportunities[id] # NoEntry
       /\ call.lastOpportunities[id].expirationTime < call.clock

\* The daily totals hold nothing of an earlier UTC day: they are the totals of
\* today, or they are all zero.
DailyTotalsCurrent ==
  \/ state.tradingDate = getTodayString(now)
  \/ state.dailyPnL = 0 /\ state.dailyTradeCount = 0 /\ state.dailyVolumeUsd = 0

\* C37: in a running process, whenever a trade is validated (execute() on an
\* unpaused breaker) or accumulated into the daily totals, the totals have
\* been reset since the UTC date last changed.
C37_TotalsResetAtMidnight ==
  [][ /\ ( /\ ~cb.paused
           /\ \E e \in Slots, t \in OppTemplates, stale \in BOOLEAN : ScanFound(e, t, stale) )
           => DailyTotalsCurrent
      /\ (procUp /\ procUp' /\ state'.dailyTradeCount # state.dailyTradeCount)
           => DailyTotalsCurrent ]_vars

\* C38: when the snapshot writes fail at every auto-save interval, the
\* failure is escalated and the circuit breaker becomes paused: the running
\* bot does not go on for ever with a state it cannot persist.
C38_PersistentSaveFailurePauses ==
  procUp ~> cb.paused

\* C39: when startup did not start the scan loop, the loop runs at some time
\* after the operator has issued 'resume'.
C39_ResumeStartsScanLoop ==
  (procUp /\ ~botRunning /\ commands > 0) ~> botRunning

\* The breaker is paused and no execute() is past its breaker check.
PausedAtRest ==
  /\ procUp
  /\ cb.paused
  /\ \A e \in Slots : ex[e].pc \notin {"revalidating", "firing"}

====
